---- MODULE Spec2Model ----
(***************************************************************************)
(* Model of the controls editor (src/src/controls-editor.js): the settings *)
(* store keyed by tree path, its direct and inherited lookups, the         *)
(* conversions between the store, the flat option list sent to the backend *)
(* and the save-file records, the debounced sync, the loading of the       *)
(* option trees and the evaluation of a response curve.                    *)
(*                                                                         *)
(* Conventions.                                                            *)
(*  - A path "a.b.c" is the sequence <<"a","b","c">> of its segments, so   *)
(*    path.split('.') is the path itself and join('.') is the identity on  *)
(*    sequences of non-empty, dot-free names.                              *)
(*  - A JavaScript object used as a map is a sequence of [key, rec] pairs  *)
(*    in insertion order (the order Object.entries yields for string       *)
(*    keys); a settings record is a function whose DOMAIN is the set of    *)
(*    fields that are not undefined.                                       *)
(*  - Numbers are integers in hundredths: 100 is 1.0, 50 is 0.5.           *)
(***************************************************************************)
EXTENDS Integers, Sequences, FiniteSets, TLC

VARIABLES currentDeviceType, currentGamepadInstance, currentJoystickInstance,
          selectedNode, hasUnsavedChanges, userSettings, syncDebounceTimer,
          loadedOptions, timers, burst, unsyncedEdits, syncedOptions,
          treeLoad, curveEval, syncErrors, curveObjects

vars == <<currentDeviceType, currentGamepadInstance, currentJoystickInstance,
          selectedNode, hasUnsavedChanges, userSettings, syncDebounceTimer,
          loadedOptions, timers, burst, unsyncedEdits, syncedOptions,
          treeLoad, curveEval, syncErrors, curveObjects>>

\* what the debounced sync adds to the state beside the timer handle
syncVars == <<timers, burst, unsyncedEdits, syncedOptions>>

(***************************************************************************)
(* Bounds of the model.                                                    *)
(***************************************************************************)
\* Device tabs gamepad1..MaxInstance and joystick1..MaxInstance are shown.
MaxInstance == 2
\* The store never holds more than this many records (all buckets together).
MaxRecords == 2
\* A loaded list or file carries at most this many options.
MaxOptions == 2

DeviceTypes == {"keyboard", "gamepad", "joystick"}
Instances == 1..MaxInstance
SettingNames == {"invert", "curveMode", "exponent", "curve"}

\* the keyboard has one bucket, the other classes one for each instance
Buckets == {<<"keyboard", 1>>} \cup ({"gamepad", "joystick"} \X (1..MaxInstance))

\* the value null (no node selected, default of the override lookup)
Null == [null |-> TRUE]
\* the value undefined (a lookup that found nothing)
Undefined == [undefined |-> TRUE]
\* inheritedFrom: null, written as the empty name, which is no path segment
NoName == ""

(***************************************************************************)
(* Generic helpers on sequences.                                           *)
(***************************************************************************)
Last(s) == s[Len(s)]
Front(s) == SubSeq(s, 1, Len(s) - 1)

\* all sequences over S of length at most n
SeqsUpTo(S, n) == UNION {[1..k -> S] : k \in 0..n}

\* the least element of a non-empty set of integers
Min(S) == CHOOSE x \in S : \A y \in S : x <= y

(***************************************************************************)
(* The option tree.  A tree is the sequence of its nodes in depth-first    *)
(* pre-order, each carrying its depth; the children of a node are the      *)
(* nodes one level deeper inside its subtree.                              *)
(***************************************************************************)
Node(name, path, depth) ==
    [name |-> name, path |-> path, depth |-> depth,
     sectionType |-> "", isSection |-> FALSE, disabled |-> FALSE]

\* the curve-family container the raw hierarchy of a device class holds
CurveFamily(deviceType) ==
    CASE deviceType = "keyboard" -> "mouse_curves"
      [] deviceType = "gamepad" -> "thumbstick_curves"
      [] OTHER -> "joystick_curves"

\* The raw hierarchy as parseOptionGroup builds it:
\* root > master > <family>_curves > inversion > pitch
RawTree(deviceType) ==
    LET f == CurveFamily(deviceType)
    IN << Node("root", <<"root">>, 0),
          Node("master", <<"root", "master">>, 1),
          Node(f, <<"root", "master", f>>, 2),
          Node("inversion", <<"root", "master", f, "inversion">>, 3),
          Node("pitch", <<"root", "master", f, "inversion", "pitch">>, 4) >>

\* index of the last node of the subtree rooted at index i
SubtreeEnd(t, i) ==
    LET inside(j) == \A k \in (i + 1)..j : t[k].depth > t[i].depth
    IN CHOOSE j \in i..Len(t) : inside(j) /\ (j = Len(t) \/ ~inside(j + 1))

\* indices of the children of the node at index i, in order
ChildIndices(t, i) ==
    {j \in (i + 1)..SubtreeEnd(t, i) : t[j].depth = t[i].depth + 1}

\* node.children.find(c => c.name \in names): index of the first such child, 0 if none
FindChild(t, i, names) ==
    LET hits == {j \in ChildIndices(t, i) : t[j].name \in names}
    IN IF hits = {} THEN 0 ELSE Min(hits)

\* JSON.parse(JSON.stringify(node)): the subtree at i as a tree of its own, its root at depth d
CloneSubtree(t, i, d) ==
    [k \in 1..(SubtreeEnd(t, i) - i + 1) |->
        [t[i + k - 1] EXCEPT !.depth = t[i + k - 1].depth - t[i].depth + d]]

\* The four replace() calls of markSectionType on a path, in the order of the code.
ReplaceInversion(path, pathPrefix) ==
    LET n == Len(path)
        mids == {i \in 2..(n - 1) : path[i] = "inversion"}
        p1 == IF mids = {} THEN path ELSE [path EXCEPT ![Min(mids)] = pathPrefix]
        p2 == IF n >= 2 /\ p1[n] = "inversion" THEN [p1 EXCEPT ![n] = pathPrefix] ELSE p1
        p3 == IF n >= 2 /\ p2[1] = "inversion" THEN [p2 EXCEPT ![1] = pathPrefix] ELSE p2
        p4 == IF n = 1 /\ p3[1] = "inversion" THEN <<pathPrefix>> ELSE p3
    IN p4

\* markSectionType(node, sectionType, pathPrefix) applied to a whole clone
MarkSectionType(t, sectionType, pathPrefix) ==
    [k \in 1..Len(t) |->
        [t[k] EXCEPT !.sectionType = sectionType,
                     !.path = IF pathPrefix # "" /\ t[k].path # <<>>
                              THEN ReplaceInversion(t[k].path, pathPrefix)
                              ELSE t[k].path]]

\* markDisabled(node) applied to a whole clone
MarkDisabled(t) == [k \in 1..Len(t) |-> [t[k] EXCEPT !.disabled = TRUE]]

CurveFamilyNames == {"mouse_curves", "thumbstick_curves", "joystick_curves"}

TransformToSCHierarchy(rawData, deviceType) ==
    LET master == FindChild(rawData, 1, {"master"})
        curvesNode == IF master = 0 THEN 0 ELSE FindChild(rawData, master, CurveFamilyNames)
        contentNode == IF curvesNode # 0 THEN curvesNode ELSE 1
        inversionNode == FindChild(rawData, contentNode, {"inversion"})
        displayRoot == Node("root", <<"root">>, 0)
        marked == MarkSectionType(CloneSubtree(rawData, inversionNode, 1), "inversion", "")
        inversionClone == [k \in 1..Len(marked) |->
                              IF k = 1 THEN [marked[1] EXCEPT !.isSection = TRUE]
                              ELSE marked[k]]
        renamed == MarkSectionType(CloneSubtree(rawData, inversionNode, 1),
                                   "curves", "sensitivity_curves")
        curvesClone == MarkDisabled([k \in 1..Len(renamed) |->
                          IF k = 1 THEN [renamed[1] EXCEPT !.name = "sensitivity_curves",
                                                           !.path = <<"sensitivity_curves">>,
                                                           !.isSection = TRUE]
                          ELSE renamed[k]])
    IN IF inversionNode = 0 THEN rawData
       ELSE IF deviceType \in {"joystick", "gamepad"}
            THEN <<displayRoot>> \o inversionClone \o curvesClone
            ELSE <<displayRoot>> \o inversionClone

\* controlsData after loadControlsDataFromXml: one display tree per device class
controlsData == [d \in DeviceTypes |-> TransformToSCHierarchy(RawTree(d), d)]

\* findNodeByPath(root, path): the first node in pre-order with that path, Null if none
FindNodeByPath(root, path) ==
    LET hits == {k \in 1..Len(root) : root[k].path = path}
    IN IF path = <<>> \/ hits = {} THEN Null ELSE root[Min(hits)]

\* !node.children || node.children.length === 0, for a node of a tree
IsLeafNode(root, node) ==
    \A k \in 1..Len(root) : root[k] = node => ChildIndices(root, k) = {}

\* findNodeByName(root, name): the first node in pre-order with that name, Null if none
FindNodeByName(root, name) ==
    LET hits == {k \in 1..Len(root) : root[k].name = name}
    IN IF name = "" \/ hits = {} THEN Null ELSE root[Min(hits)]

(***************************************************************************)
(* The settings store.  userSettings.keyboard is a bucket (path -> record) *)
(* and userSettings.joystick maps instance numbers to buckets.             *)
(* userSettings.gamepad is one object that the code uses in two ways: with *)
(* instance numbers as keys (field inst) and with paths as keys (field     *)
(* flat).  No path of the model is a number, so the two key sets never     *)
(* meet, and Object.entries lists the instance keys first, ascending.      *)
(***************************************************************************)
EmptyBucket == <<>>
EmptyRecord == <<>>

KeyIndex(bucket, key) ==
    LET hits == {k \in 1..Len(bucket) : bucket[k].key = key}
    IN IF hits = {} THEN 0 ELSE Min(hits)

HasKey(bucket, key) == KeyIndex(bucket, key) # 0

\* bucket[key], for a key the bucket has
RecordAt(bucket, key) == bucket[KeyIndex(bucket, key)].rec

\* bucket[key] = rec: in place for a key the bucket has, appended otherwise
PutRecord(bucket, key, rec) ==
    IF HasKey(bucket, key)
    THEN [bucket EXCEPT ![KeyIndex(bucket, key)].rec = rec]
    ELSE Append(bucket, [key |-> key, rec |-> rec])

\* delete bucket[key]
DeleteKey(bucket, key) ==
    LET i == KeyIndex(bucket, key)
    IN IF i = 0 THEN bucket
       ELSE SubSeq(bucket, 1, i - 1) \o SubSeq(bucket, i + 1, Len(bucket))

\* a record written the way a mode switch would write it if each mode kept only its own
\* data: setting curveMode deletes the field of the other mode
SetFieldOfOneMode(rec, settingName, value) ==
    LET dropped == IF settingName # "curveMode" THEN {}
                   ELSE IF value = "curve" THEN {"exponent"} ELSE {"curve"}
    IN [f \in (DOMAIN rec \cup {settingName}) \ dropped |->
           IF f = settingName THEN value ELSE rec[f]]

\* record[settingName] = value
SetField(rec, settingName, value) == (settingName :> value) @@ rec

\* the `settings` object getUserSetting reads: the bucket of the current selection, {} if none
CurrentSettings(us, deviceType, gamepadInstance, joystickInstance) ==
    CASE deviceType = "joystick" ->
            IF joystickInstance \in DOMAIN us.joystick
            THEN us.joystick[joystickInstance] ELSE EmptyBucket
      [] deviceType = "gamepad" ->
            IF gamepadInstance \in DOMAIN us.gamepad.inst
            THEN us.gamepad.inst[gamepadInstance] ELSE EmptyBucket
      [] OTHER -> us.keyboard

\* LookupSetting with the two keys tried in the other order: the bare final segment first
LookupSettingBareFirst(settings, path, settingName) ==
    LET optionName == <<Last(path)>>
    IN IF optionName # path /\ HasKey(settings, optionName)
          /\ settingName \in DOMAIN RecordAt(settings, optionName)
       THEN [found |-> TRUE, value |-> RecordAt(settings, optionName)[settingName]]
       ELSE IF HasKey(settings, path) /\ settingName \in DOMAIN RecordAt(settings, path)
            THEN [found |-> TRUE, value |-> RecordAt(settings, path)[settingName]]
            ELSE [found |-> FALSE]

\* getUserSetting(path, settingName, undefined) on a settings object:
\* [found |-> TRUE, value |-> v] when the result is not undefined
LookupSetting(settings, path, settingName) ==
    LET optionName == <<Last(path)>>
    IN IF HasKey(settings, path) /\ settingName \in DOMAIN RecordAt(settings, path)
       THEN [found |-> TRUE, value |-> RecordAt(settings, path)[settingName]]
       ELSE IF optionName # path /\ HasKey(settings, optionName)
                 /\ settingName \in DOMAIN RecordAt(settings, optionName)
            THEN [found |-> TRUE, value |-> RecordAt(settings, optionName)[settingName]]
            ELSE [found |-> FALSE]

getUserSetting(settings, path, settingName, defaultValue) ==
    LET r == LookupSetting(settings, path, settingName)
    IN IF r.found THEN r.value ELSE defaultValue

\* WalkParents with the prefixes tried from the root down: the farthest ancestor wins
WalkParentsFarthestFirst(settings, pathParts, settingName, defaultValue, i) ==
    LET hits == {k \in 1..i :
                    LookupSetting(settings, SubSeq(pathParts, 1, k), settingName).found}
    IN IF hits = {}
       THEN [value |-> defaultValue, inherited |-> FALSE, inheritedFrom |-> NoName]
       ELSE [value |-> LookupSetting(settings, SubSeq(pathParts, 1, Min(hits)),
                                     settingName).value,
             inherited |-> TRUE, inheritedFrom |-> pathParts[Min(hits)]]

\* the loop of getUserSettingWithInheritance from index i down to 1
RECURSIVE WalkParents(_, _, _, _, _)
WalkParents(settings, pathParts, settingName, defaultValue, i) ==
    IF i < 1
    THEN [value |-> defaultValue, inherited |-> FALSE, inheritedFrom |-> NoName]
    ELSE LET parentPath == SubSeq(pathParts, 1, i)
             parentValue == LookupSetting(settings, parentPath, settingName)
         IN IF parentValue.found
            THEN [value |-> parentValue.value, inherited |-> TRUE,
                  inheritedFrom |-> pathParts[i]]
            ELSE WalkParents(settings, pathParts, settingName, defaultValue, i - 1)

\* getUserSettingWithInheritance reporting a miss as inherited from the path's own node
GetUserSettingWithInheritanceMissInherited(settings, path, settingName, defaultValue) ==
    LET r == WalkParents(settings, path, settingName, defaultValue, Len(path))
    IN IF r.inherited THEN [r EXCEPT !.inherited = r.inheritedFrom # Last(path)]
       ELSE [r EXCEPT !.inherited = TRUE, !.inheritedFrom = Last(path)]

getUserSettingWithInheritance(settings, path, settingName, defaultValue) ==
    LET directValue == LookupSetting(settings, path, settingName)
    IN IF directValue.found
       THEN [value |-> directValue.value, inherited |-> FALSE, inheritedFrom |-> NoName]
       ELSE WalkParents(settings, path, settingName, defaultValue, Len(path) - 1)

\* a setUserSetting that would store a record holding the one field
SetInBucketFreshRecord(bucket, path, settingName, value) ==
    PutRecord(bucket, path, SetField(EmptyRecord, settingName, value))

\* the store after setUserSetting(path, settingName, value)
SetInBucket(bucket, path, settingName, value) ==
    PutRecord(bucket, path,
              SetField(IF HasKey(bucket, path) THEN RecordAt(bucket, path) ELSE EmptyRecord,
                       settingName, value))

StoreAfterSet(us, deviceType, gamepadInstance, joystickInstance, path, settingName, value) ==
    CASE deviceType = "joystick" ->
            [us EXCEPT !.joystick = (joystickInstance :>
                SetInBucket(CurrentSettings(us, deviceType, gamepadInstance, joystickInstance),
                            path, settingName, value)) @@ @]
      [] deviceType = "gamepad" ->
            [us EXCEPT !.gamepad.inst = (gamepadInstance :>
                SetInBucket(CurrentSettings(us, deviceType, gamepadInstance, joystickInstance),
                            path, settingName, value)) @@ @]
      [] OTHER ->
            [us EXCEPT !.keyboard = SetInBucket(@, path, settingName, value)]

\* number of records the store holds
RECURSIVE SumLen(_, _)
SumLen(f, S) ==
    IF S = {} THEN 0
    ELSE LET i == CHOOSE x \in S : TRUE IN Len(f[i]) + SumLen(f, S \ {i})

TotalRecords(us) ==
    Len(us.keyboard) + Len(us.gamepad.flat)
    + SumLen(us.gamepad.inst, DOMAIN us.gamepad.inst)
    + SumLen(us.joystick, DOMAIN us.joystick)

EmptyStore ==
    [keyboard |-> EmptyBucket,
     gamepad |-> [inst |-> <<>>, flat |-> EmptyBucket],
     joystick |-> <<>>]

(***************************************************************************)
(* Loading the flat option list (loadControlSettings).  An option is       *)
(* [name, attributes, curve_points]: attributes is a list of <<key, value>>*)
(* pairs of strings, curve_points a list of [in_val, out_val] strings.     *)
(***************************************************************************)
\* parseFloat on the number strings of the model, in hundredths
ParseFloat(str) ==
    CASE str = "0" -> 0
      [] str = "0.25" -> 25
      [] str = "0.5" -> 50
      [] str = "1" -> 100
      [] str = "1.0" -> 100
      [] str = "2" -> 200
      [] str = "2.0" -> 200

\* parseInt(instance) || 1, the instance being a number or 0 when it is missing
ParseInstance(instance) == IF instance = 0 THEN 1 ELSE instance

\* the loop over opt.attributes, from attribute i on
RECURSIVE ParseAttributes(_, _, _)
ParseAttributes(opt, settings, i) ==
    IF i > Len(opt.attributes) THEN settings
    ELSE LET key == opt.attributes[i][1]
             value == opt.attributes[i][2]
             next ==
               CASE key = "invert" -> SetField(settings, "invert", value = "1")
                 [] key = "exponent" ->
                      IF Len(opt.curve_points) = 0
                      THEN SetField(SetField(settings, "exponent", ParseFloat(value)),
                                    "curveMode", "exponent")
                      ELSE SetField(settings, "exponent", ParseFloat(value))
                 [] OTHER -> settings
         IN ParseAttributes(opt, next, i + 1)

\* ParseOption with an exponent attribute deciding the mode even when curve points follow
ParseOptionExponentWins(opt) ==
    LET settings == ParseAttributes(opt, EmptyRecord, 1)
    IN IF Len(opt.curve_points) > 0
       THEN SetField(SetField(settings, "curveMode",
                              IF "exponent" \in DOMAIN settings THEN "exponent" ELSE "curve"),
                     "curve",
                     [points |-> [k \in 1..Len(opt.curve_points) |->
                        [in |-> ParseFloat(opt.curve_points[k].in_val),
                         out |-> ParseFloat(opt.curve_points[k].out_val)]]])
       ELSE settings

\* the settings record built for one option
ParseOption(opt) ==
    LET settings == ParseAttributes(opt, EmptyRecord, 1)
    IN IF Len(opt.curve_points) > 0
       THEN SetField(SetField(settings, "curveMode", "curve"), "curve",
                     [points |-> [k \in 1..Len(opt.curve_points) |->
                        [in |-> ParseFloat(opt.curve_points[k].in_val),
                         out |-> ParseFloat(opt.curve_points[k].out_val)]]])
       ELSE settings

\* the storage key of an option: the path of the tree node of that name, else the name
FullPath(device_type, optionName) ==
    LET node == FindNodeByName(controlsData[device_type], optionName)
    IN IF node # Null /\ node.path # <<>> THEN node.path ELSE <<optionName>>

\* userSettings after one option of a device entry is stored
StoreOption(us, device_type, instance, opt) ==
    LET fullPath == FullPath(device_type, opt.name)
        settings == ParseOption(opt)
        instanceNum == ParseInstance(instance)
    IN CASE device_type = "joystick" ->
              [us EXCEPT !.joystick = (instanceNum :>
                  PutRecord(IF instanceNum \in DOMAIN us.joystick
                            THEN us.joystick[instanceNum] ELSE EmptyBucket,
                            fullPath, settings)) @@ @]
         [] device_type = "gamepad" ->
              [us EXCEPT !.gamepad.flat = PutRecord(@, fullPath, settings)]
         [] OTHER ->
              [us EXCEPT !.keyboard = PutRecord(@, fullPath, settings)]

RECURSIVE StoreOptions(_, _, _, _)
StoreOptions(us, device_type, instance, control_options) ==
    IF control_options = <<>> THEN us
    ELSE StoreOptions(StoreOption(us, device_type, instance, Head(control_options)),
                      device_type, instance, Tail(control_options))

RECURSIVE StoreDevices(_, _)
StoreDevices(us, deviceOptions) ==
    IF deviceOptions = <<>> THEN us
    ELSE LET deviceOpt == Head(deviceOptions)
         IN StoreDevices(StoreOptions(us, deviceOpt.device_type, deviceOpt.instance,
                                      deviceOpt.control_options),
                         Tail(deviceOptions))

\* a loadControlSettings that would keep the store and add the options to it
LoadIntoCurrentStore(deviceOptions) == StoreDevices(userSettings, deviceOptions)

\* userSettings after loadControlSettings(deviceOptions), deviceOptions an array
StoreAfterLoadControlSettings(deviceOptions) == StoreDevices(EmptyStore, deviceOptions)

(***************************************************************************)
(* Loading a save file (loadControlsFromFile).  loadedData.devices holds   *)
(* for the keyboard a list of [name, settings] entries (the entries of the *)
(* JSON object, in order) and for gamepad and joystick a function from     *)
(* instance numbers to such lists.                                         *)
(***************************************************************************)
RECURSIVE convertLoadedSettings(_)
convertLoadedSettings(loadedSettings) ==
    IF loadedSettings = <<>> THEN EmptyBucket
    ELSE LET e == Last(loadedSettings)
             result == convertLoadedSettings(Front(loadedSettings))
             pathSettings ==
                 [f \in (DOMAIN e.settings) \cap SettingNames |-> e.settings[f]]
         IN IF DOMAIN pathSettings # {}
            THEN PutRecord(result, e.name, pathSettings)
            ELSE result

StoreAfterLoadControlsFromFile(devices) ==
    [keyboard |-> convertLoadedSettings(devices.keyboard),
     gamepad |-> [inst |-> [i \in DOMAIN devices.gamepad |->
                              convertLoadedSettings(devices.gamepad[i])],
                  flat |-> EmptyBucket],
     joystick |-> [i \in DOMAIN devices.joystick |->
                              convertLoadedSettings(devices.joystick[i])]]

(***************************************************************************)
(* The flat option list (generateControlOptionsXml, getAllControlOptions). *)
(***************************************************************************)
\* getAllControlOptions asks for joystick instances 1..JoystickSlots
JoystickSlots == 8

\* A bucket read as if it were a settings record: its field f is whatever is stored
\* under the key f.  This is how the code reads userSettings.gamepad[instance].
BucketAsRecord(bucket) ==
    [f \in {g \in SettingNames : HasKey(bucket, <<g>>)} |-> RecordAt(bucket, <<f>>)]

\* Object.entries(settings) for the object generateControlOptionsXml iterates
SettingsEntries(us, deviceType, instance) ==
    CASE deviceType = "joystick" ->
            IF instance \in DOMAIN us.joystick THEN us.joystick[instance] ELSE EmptyBucket
      [] deviceType = "gamepad" ->
            [k \in 1..Cardinality(DOMAIN us.gamepad.inst) |->
                LET i == CHOOSE j \in DOMAIN us.gamepad.inst :
                            Cardinality({m \in DOMAIN us.gamepad.inst : m < j}) = k - 1
                IN [key |-> <<ToString(i)>>, rec |-> BucketAsRecord(us.gamepad.inst[i])]]
            \o us.gamepad.flat
      [] OTHER -> us.keyboard

HasInvert(pathSettings) == "invert" \in DOMAIN pathSettings

CurveModeOf(pathSettings) ==
    IF "curveMode" \in DOMAIN pathSettings THEN pathSettings.curveMode ELSE "exponent"

\* HasExponent without the test against the identity exponent
HasExponentAnyValue(pathSettings) ==
    /\ CurveModeOf(pathSettings) = "exponent"
    /\ "exponent" \in DOMAIN pathSettings

HasExponent(pathSettings) ==
    /\ CurveModeOf(pathSettings) = "exponent"
    /\ "exponent" \in DOMAIN pathSettings
    /\ pathSettings.exponent # 100

HasCurve(pathSettings) ==
    /\ CurveModeOf(pathSettings) = "curve"
    /\ "curve" \in DOMAIN pathSettings
    /\ Len(pathSettings.curve.points) > 0

\* ControlOption sending the stored exponent along with a curve
ControlOptionStoredExponent(path, pathSettings) ==
    LET named == [name |-> Last(path)]
        withInvert == IF HasInvert(pathSettings)
                      THEN SetField(named, "invert", pathSettings.invert) ELSE named
        withExponent == IF "exponent" \in DOMAIN pathSettings
                           /\ (HasExponent(pathSettings) \/ HasCurve(pathSettings))
                        THEN SetField(withInvert, "exponent", pathSettings.exponent)
                        ELSE IF HasCurve(pathSettings)
                             THEN SetField(withInvert, "exponent", 100)
                             ELSE withInvert
    IN IF HasCurve(pathSettings)
       THEN SetField(withExponent, "curve", pathSettings.curve)
       ELSE withExponent

\* the object pushed for one entry; a field that would be undefined is left out
ControlOption(path, pathSettings) ==
    LET named == [name |-> Last(path)]
        withInvert == IF HasInvert(pathSettings)
                      THEN SetField(named, "invert", pathSettings.invert) ELSE named
        withExponent == IF HasExponent(pathSettings)
                        THEN SetField(withInvert, "exponent", pathSettings.exponent)
                        ELSE IF HasCurve(pathSettings)
                             THEN SetField(withInvert, "exponent", 100)
                             ELSE withInvert
    IN IF HasCurve(pathSettings)
       THEN SetField(withExponent, "curve", pathSettings.curve)
       ELSE withExponent

\* the loop of generateControlOptionsXml over the entries
RECURSIVE ControlOptionsOf(_)
ControlOptionsOf(entries) ==
    IF entries = <<>> THEN <<>>
    ELSE LET e == Head(entries)
         IN IF ~HasInvert(e.rec) /\ ~HasExponent(e.rec) /\ ~HasCurve(e.rec)
            THEN ControlOptionsOf(Tail(entries))
            ELSE <<ControlOption(e.key, e.rec)>> \o ControlOptionsOf(Tail(entries))

\* generateControlOptionsXml(deviceType, instance).  The code returns null instead of an
\* empty list; NoOptions stands for that null.
NoOptions == <<>>

generateControlOptionsXml(us, deviceType, instance) ==
    LET controlOptions == ControlOptionsOf(SettingsEntries(us, deviceType, instance))
    IN IF Len(controlOptions) = 0 THEN NoOptions ELSE controlOptions

\* the joystick part of getAllControlOptions, instances i..JoystickSlots
RECURSIVE JoystickOptions(_, _)
JoystickOptions(us, i) ==
    IF i > JoystickSlots THEN <<>>
    ELSE LET joystickOptions == generateControlOptionsXml(us, "joystick", i)
         IN (IF joystickOptions # NoOptions
             THEN <<[deviceType |-> "joystick", instance |-> i, options |-> joystickOptions]>>
             ELSE <<>>) \o JoystickOptions(us, i + 1)

getAllControlOptions(us) ==
    LET keyboardOptions == generateControlOptionsXml(us, "keyboard", 1)
        gamepadOptions == generateControlOptionsXml(us, "gamepad", 1)
    IN (IF keyboardOptions # NoOptions
        THEN <<[deviceType |-> "keyboard", instance |-> 1, options |-> keyboardOptions]>>
        ELSE <<>>)
       \o (IF gamepadOptions # NoOptions
           THEN <<[deviceType |-> "gamepad", instance |-> 1, options |-> gamepadOptions]>>
           ELSE <<>>)
       \o JoystickOptions(us, 1)

(***************************************************************************)
(* The save-file records (getControlsForSaving, convertSettingsForSave).   *)
(***************************************************************************)
\* convertSettingsForSave copying the whole record
RECURSIVE ConvertSettingsForSaveWholeRecord(_)
ConvertSettingsForSaveWholeRecord(settings) ==
    IF settings = <<>> THEN <<>>
    ELSE LET e == Last(settings)
         IN PutRecord(ConvertSettingsForSaveWholeRecord(Front(settings)),
                      <<Last(e.key)>>, e.rec)

\* result[optionName] = saveSettings for every entry, in order
RECURSIVE convertSettingsForSave(_)
convertSettingsForSave(settings) ==
    IF settings = <<>> THEN <<>>
    ELSE LET e == Last(settings)
             result == convertSettingsForSave(Front(settings))
             saveSettings == IF "invert" \in DOMAIN e.rec
                             THEN [invert |-> e.rec.invert] ELSE EmptyRecord
         IN PutRecord(result, <<Last(e.key)>>, saveSettings)

\* convertSettingsForSave applied to a settings record instead of a bucket: its entries
\* are the record's fields, whose values have no invert of their own
FieldsAsSettings(rec) ==
    LET fields == <<"invert", "curveMode", "exponent", "curve">>
        present == {k \in 1..4 : fields[k] \in DOMAIN rec}
    IN [k \in 1..Cardinality(present) |->
          LET j == CHOOSE m \in present : Cardinality({n \in present : n < m}) = k - 1
          IN [key |-> <<fields[j]>>, rec |-> EmptyRecord]]

\* devices.joystick or the instance part of devices.gamepad: one converted bucket per
\* instance whose bucket is not empty
SaveInstances(f) ==
    [i \in {j \in DOMAIN f : Len(f[j]) > 0} |-> convertSettingsForSave(f[i])]

\* the path-keyed entries of userSettings.gamepad, each converted as if it were a bucket
RECURSIVE SaveFlat(_)
SaveFlat(flat) ==
    IF flat = <<>> THEN <<>>
    ELSE (IF DOMAIN Head(flat).rec # {}
          THEN <<[key |-> Head(flat).key,
                  rec |-> convertSettingsForSave(FieldsAsSettings(Head(flat).rec))]>>
          ELSE <<>>) \o SaveFlat(Tail(flat))

\* The code leaves a device null when it has nothing to save; an empty list or map
\* stands for that null (a converted bucket that is not empty is never an empty list).
getControlsForSaving(us) ==
    [keyboard |-> convertSettingsForSave(us.keyboard),
     gamepad |-> [inst |-> SaveInstances(us.gamepad.inst), flat |-> SaveFlat(us.gamepad.flat)],
     joystick |-> SaveInstances(us.joystick)]

(***************************************************************************)
(* The backend between getAllControlOptions and loadControlSettings: it    *)
(* writes each entry of the flat list as an <options> child and reads the  *)
(* children back as [name, attributes, curve_points].                      *)
(***************************************************************************)
\* a number of the model as the string the backend writes for it
FormatNumber(n) ==
    CASE n = 0 -> "0"
      [] n = 25 -> "0.25"
      [] n = 50 -> "0.5"
      [] n = 100 -> "1"
      [] n = 200 -> "2"

\* one entry of the flat list as loadControlSettings gets it back
ToOption(controlOption) ==
    [name |-> controlOption.name,
     attributes |->
        (IF "invert" \in DOMAIN controlOption
         THEN << <<"invert", IF controlOption.invert THEN "1" ELSE "0">> >> ELSE <<>>)
        \o (IF "exponent" \in DOMAIN controlOption
            THEN << <<"exponent", FormatNumber(controlOption.exponent)>> >> ELSE <<>>),
     curve_points |->
        IF "curve" \in DOMAIN controlOption
        THEN [k \in 1..Len(controlOption.curve.points) |->
                [in_val |-> FormatNumber(controlOption.curve.points[k].in),
                 out_val |-> FormatNumber(controlOption.curve.points[k].out)]]
        ELSE <<>>]

\* the deviceOptions array that carries the flat list of one device class and instance
ToDeviceOptions(deviceType, instance, controlOptions) ==
    IF controlOptions = NoOptions THEN <<>>
    ELSE <<[device_type |-> deviceType, instance |-> instance,
            control_options |-> [k \in 1..Len(controlOptions) |->
                                    ToOption(controlOptions[k])]]>>

(***************************************************************************)
(* Inputs of the load operations.                                          *)
(***************************************************************************)
Option(name, attributes, curve_points) ==
    [name |-> name, attributes |-> attributes, curve_points |-> curve_points]

OnePoint == <<[in_val |-> "0.5", out_val |-> "0.25"]>>

\* option names: a leaf of the tree, a container of the tree, and a name no node has
OptionNames == {"pitch", "inversion", "master"}

\* what an <options> child can carry: attributes and curve points
OptionPayloads ==
    { <<<< <<"invert", "1">> >>, <<>>>>,
      <<<< <<"invert", "0">> >>, <<>>>>,
      <<<< <<"exponent", "2">> >>, <<>>>>,
      <<<< <<"exponent", "1.0">> >>, <<>>>>,
      <<<< <<"exponent", "1">> >>, OnePoint>>,
      <<<< <<"exponent", "2">> >>, OnePoint>>,
      <<<< <<"invert", "1">>, <<"exponent", "2">> >>, <<>>>>,
      <<<<>>, OnePoint>>,
      <<<<>>, <<>>>> }

Options == {Option(n, p[1], p[2]) : n \in OptionNames, p \in OptionPayloads}

\* the options that follow the first one of a list: any name, an invert or an exponent
FollowingOptions ==
    {Option(n, << a >>, <<>>) : n \in OptionNames, a \in { <<"invert", "0">>, <<"exponent", "2">> }}

\* the control_options lists of at most n options
OptionLists(n) ==
    {<<>>} \cup {<<o>> \o rest : o \in Options, rest \in SeqsUpTo(FollowingOptions, n - 1)}

\* one <options> element of a device: instance 0 stands for a missing instance attribute
DeviceEntries(n) ==
    {[device_type |-> d, instance |-> i, control_options |-> os] :
        d \in DeviceTypes, i \in 0..MaxInstance, os \in OptionLists(n)}

\* what a settings record can hold for one field: nothing, or one of two values
FieldParts(settingName) ==
    {EmptyRecord} \cup
    (CASE settingName = "invert" -> {[invert |-> TRUE], [invert |-> FALSE]}
       [] settingName = "curveMode" -> {[curveMode |-> "exponent"], [curveMode |-> "curve"]}
       [] settingName = "exponent" -> {[exponent |-> 100], [exponent |-> 200]}
       [] OTHER -> {[curve |-> [points |-> <<>>]],
                    [curve |-> [points |-> <<[in |-> 50, out |-> 25]>>]]})

\* settings of an entry of a save file: any fields, any values (the load format accepts
\* curveMode, exponent and curve beside invert)
FileSettings ==
    {a @@ b @@ c @@ d : a \in FieldParts("invert"), b \in FieldParts("curveMode"),
                        c \in FieldParts("exponent"), d \in FieldParts("curve")}

\* an entry of a save file: its key, split at the dots, and its settings
FileEntries == {[name |-> <<n>>, settings |-> st] : n \in OptionNames, st \in FileSettings}

\* the entries that follow the first one of a JSON object: the key is pitch or the
\* path of the pitch node, the settings an invert or an exponent
FollowingFileEntries(deviceType) ==
    {[name |-> k, settings |-> st] :
        k \in { <<"pitch">>, FullPath(deviceType, "pitch") },
        st \in { [invert |-> FALSE], [exponent |-> 200] }}

\* the entries of one JSON object of a save file, at most n of them
FileBuckets(deviceType, n) ==
    {<<>>} \cup {<<e>> \o rest : e \in FileEntries,
                                rest \in SeqsUpTo(FollowingFileEntries(deviceType), n - 1)}

\* a save file with one bucket: the keyboard's, or that of one gamepad or joystick
FileOfOneBucket(deviceType, instance, b) ==
    [keyboard |-> IF deviceType = "keyboard" THEN b ELSE <<>>,
     gamepad |-> IF deviceType = "gamepad" THEN (instance :> b) ELSE <<>>,
     joystick |-> IF deviceType = "joystick" THEN (instance :> b) ELSE <<>>]

(***************************************************************************)
(* The debounced sync (debouncedSyncToBackend).  syncDebounceTimer is the   *)
(* timer id setTimeout returned last, 0 for null: the code never sets it   *)
(* back to null.  timers is the set of ids of the timers that are pending. *)
(* Time is not measured: a timer fires SYNC_DEBOUNCE_MS after it was set,  *)
(* so a call that finds the latest timer pending comes less than that      *)
(* interval after the call that set it and continues its burst, and a call *)
(* that finds it gone begins a new burst.                                  *)
(***************************************************************************)
\* clearTimeout that leaves the timer pending
ClearTimeoutKeepsTimer(pending, id) == pending

\* clearTimeout(id) on the set of pending timers
ClearTimeout(pending, id) == pending \ {id}

\* the id setTimeout returns: one no pending timer has
NewTimerId(pending) == Min((1..(Cardinality(pending) + 1)) \ pending)

\* one call of debouncedSyncToBackend: the handle and the pending timers it leaves
debouncedSyncToBackend(handle, pending) ==
    LET cleared == IF handle # 0 THEN ClearTimeout(pending, handle) ELSE pending
        id == NewTimerId(cleared)
    IN [handle |-> id, timers |-> cleared \cup {id}]

\* n calls of debouncedSyncToBackend in a row, n >= 1
RECURSIVE DebouncedSyncCalls(_, _, _)
DebouncedSyncCalls(handle, pending, n) ==
    IF n = 1 THEN debouncedSyncToBackend(handle, pending)
    ELSE LET first == debouncedSyncToBackend(handle, pending)
         IN DebouncedSyncCalls(first.handle, first.timers, n - 1)

\* The burst n calls in a row belong to: [calls, syncs] counts its setUserSetting calls
\* (2 standing for two or more) and the backend syncs its timers have caused.
BurstAfterCalls(b, handle, pending, n) ==
    IF handle \in pending
    THEN [b EXCEPT !.calls = IF @ + n >= 2 THEN 2 ELSE @ + n]
    ELSE [calls |-> IF n >= 2 THEN 2 ELSE n, syncs |-> 0]

\* SyncPayload sending the options of the first device only
SyncPayloadFirstDeviceOnly(us) ==
    IF getAllControlOptions(us) = <<>> THEN <<>> ELSE <<Head(getAllControlOptions(us))>>

\* const controlOptions = window.getAllControlOptions(), in the timer callback
SyncPayload(us) == getAllControlOptions(us)

\* no sync has reached the backend since the store was last written
NoSync == [sent |-> FALSE, controlOptions |-> <<>>]

(***************************************************************************)
(* Loading the option trees.  An optiontree of AllBinds.xml is the         *)
(* sequence of its optiongroup elements in document order, each with its   *)
(* depth; an element without a name attribute has the name "".  A path     *)
(* that is null or undefined is the empty sequence.  The objects the       *)
(* loader allocates are named by the place that allocates them, and a tree *)
(* in memory is the sequence of the objects of its nodes, whose values the *)
(* heap of the device class holds: two trees share a node or a curve when  *)
(* they hold the same object.                                              *)
(***************************************************************************)
Element(name, depth, curve) == [name |-> name, depth |-> depth, curve |-> curve]

\* what parseCurve returns for the nonlinearity_curve of the model
PitchCurve == [reset |-> FALSE, points |-> <<[in |-> 50, out |-> 25]>>]

\* the optiontrees a document of the model holds for a device class: the hierarchy of
\* the game, the same with a curve on the leaf, a tree without a name whose inversion
\* group is a child of the optiontree itself, a tree without an inversion group, and a
\* tree whose master holds the container of another class before the one of its own
XmlTrees(deviceType) ==
    LET f == CurveFamily(deviceType)
        g == IF deviceType = "joystick" THEN "thumbstick_curves" ELSE "joystick_curves"
    IN { << Element("root", 0, Null), Element("master", 1, Null), Element(f, 2, Null),
            Element("inversion", 3, Null), Element("pitch", 4, Null) >>,
         << Element("root", 0, Null), Element("master", 1, Null), Element(f, 2, Null),
            Element("inversion", 3, Null), Element("pitch", 4, PitchCurve) >>,
         << Element("", 0, Null), Element("inversion", 1, Null),
            Element("pitch", 2, PitchCurve) >>,
         << Element("root", 0, Null), Element("master", 1, Null), Element(f, 2, Null),
            Element("pitch", 3, Null) >>,
         << Element("root", 0, Null), Element("master", 1, Null),
            Element(g, 2, Null), Element("inversion", 3, Null), Element("roll", 4, Null),
            Element(f, 2, Null), Element("inversion", 3, Null), Element("pitch", 4, Null) >> }

\* no optiontree of that type in the document
NoTree == <<>>

\* the documents get_all_binds_xml may return
XmlDocuments ==
    {[keyboard |-> k, gamepad |-> g, joystick |-> j] :
        k \in XmlTrees("keyboard") \cup {NoTree},
        g \in XmlTrees("gamepad") \cup {NoTree},
        j \in XmlTrees("joystick") \cup {NoTree}}

\* index of the element that holds the element at index k
ParentElement(els, k) ==
    CHOOSE j \in 1..(k - 1) :
        /\ els[j].depth = els[k].depth - 1
        /\ \A m \in (j + 1)..(k - 1) : els[m].depth >= els[k].depth

\* the path parseOptionGroup gives the element at index k
RECURSIVE ElementPath(_, _)
ElementPath(els, k) ==
    IF els[k].depth = 0
    THEN IF els[k].name = "" THEN <<>> ELSE <<els[k].name>>
    ELSE LET parentPath == ElementPath(els, ParentElement(els, k))
         IN IF parentPath = <<>> THEN <<els[k].name>>
            ELSE Append(parentPath, els[k].name)

\* parseOptionGroup(tree, type): the raw hierarchy of an optiontree
ParseOptionGroup(els) ==
    [k \in 1..Len(els) |->
        Node(IF els[k].name = "" THEN "root" ELSE els[k].name,
             ElementPath(els, k), els[k].depth)]

\* node.curve of the nodes of the raw hierarchy
ParsedCurves(els) == [k \in 1..Len(els) |-> els[k].curve]

\* the objects: the k-th node a place allocates, and the curve of that node
NodeObject(site, k) == <<site, k, "node">>
CurveObject(site, k) == <<site, k, "curve">>
NoObject == <<>>

ObjectsAt(site, curves) ==
    [k \in 1..Len(curves) |->
        [node |-> NodeObject(site, k),
         curve |-> IF curves[k] = Null THEN NoObject ELSE CurveObject(site, k)]]

\* the objects parseOptionGroup allocates for the raw hierarchy
ParsedObjects(els) == ObjectsAt("rawData", ParsedCurves(els))

\* a copy that allocates the nodes anew and keeps the curve objects of the source
JsonCloneSharingCurves(objs, curves, i, j, site) ==
    [k \in 1..(j - i + 1) |->
        [node |-> NodeObject(site, k), curve |-> objs[i + k - 1].curve]]

\* JSON.parse(JSON.stringify(node)) for the subtree from index i to index j: every
\* node and every curve of the copy is an object of its own
JsonCloneObjects(objs, curves, i, j, site) ==
    ObjectsAt(site, SubSeq(curves, i, j))

\* the content node transformToSCHierarchy reaches: the first child of master that has
\* the name of a curve family, the root without such a child
ContentNodeIndex(rawData) ==
    LET master == FindChild(rawData, 1, {"master"})
        curvesNode == IF master = 0 THEN 0 ELSE FindChild(rawData, master, CurveFamilyNames)
    IN IF curvesNode # 0 THEN curvesNode ELSE 1

\* the inversion node transformToSCHierarchy finds, 0 if none
InversionNodeIndex(rawData) ==
    LET master == FindChild(rawData, 1, {"master"})
        curvesNode == IF master = 0 THEN 0 ELSE FindChild(rawData, master, CurveFamilyNames)
        contentNode == IF curvesNode # 0 THEN curvesNode ELSE 1
    IN FindChild(rawData, contentNode, {"inversion"})

\* the objects of the tree transformToSCHierarchy returns, node by node
TransformObjects(rawObjs, rawCurves, rawData, deviceType) ==
    LET i == InversionNodeIndex(rawData)
        j == SubtreeEnd(rawData, i)
        displayRoot == <<[node |-> NodeObject("root", 1), curve |-> NoObject]>>
    IN IF i = 0 THEN rawObjs
       ELSE IF deviceType \in {"joystick", "gamepad"}
            THEN displayRoot \o JsonCloneObjects(rawObjs, rawCurves, i, j, "inversionClone")
                             \o JsonCloneObjects(rawObjs, rawCurves, i, j, "curvesClone")
            ELSE displayRoot \o JsonCloneObjects(rawObjs, rawCurves, i, j, "inversionClone")

\* node.curve of the nodes of the tree transformToSCHierarchy returns
TransformCurves(rawCurves, rawData, deviceType) ==
    LET i == InversionNodeIndex(rawData)
        j == SubtreeEnd(rawData, i)
    IN IF i = 0 THEN rawCurves
       ELSE IF deviceType \in {"joystick", "gamepad"}
            THEN <<Null>> \o SubSeq(rawCurves, i, j) \o SubSeq(rawCurves, i, j)
            ELSE <<Null>> \o SubSeq(rawCurves, i, j)

\* the first index at which a sequence of objects holds the object id, 0 if none
NodeAt(objs, id) ==
    LET hits == {k \in 1..Len(objs) : objs[k].node = id}
    IN IF hits = {} THEN 0 ELSE Min(hits)
CurveAt(objs, id) ==
    LET hits == {k \in 1..Len(objs) : objs[k].curve = id}
    IN IF hits = {} THEN 0 ELSE Min(hits)

\* What the loader holds for one device class: the objects of the raw hierarchy, the
\* objects of the tree stored in controlsData (root), and the heap with the value of
\* every node object and of every curve object.
TreeInMemory(rawObjs, rawData, rawCurves, objs, tree, curves) ==
    LET nodeIds == {rawObjs[k].node : k \in 1..Len(rawObjs)}
                       \cup {objs[k].node : k \in 1..Len(objs)}
        curveIds == ({rawObjs[k].curve : k \in 1..Len(rawObjs)}
                        \cup {objs[k].curve : k \in 1..Len(objs)}) \ {NoObject}
    IN [raw |-> rawObjs,
        root |-> objs,
        nodes |-> [id \in nodeIds |->
                      IF NodeAt(objs, id) # 0 THEN tree[NodeAt(objs, id)]
                      ELSE rawData[NodeAt(rawObjs, id)]],
        curves |-> [id \in curveIds |->
                      IF CurveAt(objs, id) # 0 THEN curves[CurveAt(objs, id)]
                      ELSE rawCurves[CurveAt(rawObjs, id)]]]

\* result[type] of parseOptionTreesFromXml: null without an optiontree of the type
ParsedClass(els, deviceType) ==
    IF els = NoTree THEN Null
    ELSE LET rawData == ParseOptionGroup(els)
             rawCurves == ParsedCurves(els)
             rawObjs == ParsedObjects(els)
         IN TreeInMemory(rawObjs, rawData, rawCurves,
                         TransformObjects(rawObjs, rawCurves, rawData, deviceType),
                         TransformToSCHierarchy(rawData, deviceType),
                         TransformCurves(rawCurves, rawData, deviceType))

ParseOptionTreesFromXml(doc) == [d \in DeviceTypes |-> ParsedClass(doc[d], d)]

\* getDefaultControlsData(): a root without a path and with children: [] for each class
GetDefaultControlsData ==
    [d \in DeviceTypes |->
        TreeInMemory(<<>>, <<>>, <<>>,
                     <<[node |-> NodeObject("default", 1), curve |-> NoObject]>>,
                     <<Node("root", <<>>, 0)>>, <<Null>>)]

\* get_all_binds_xml threw
NoDocument == [failed |-> TRUE]

\* loadControlsDataFromXml()
LoadControlsDataFromXml(xml) ==
    IF xml = NoDocument THEN [via |-> "default", data |-> GetDefaultControlsData]
    ELSE [via |-> "xml", data |-> ParseOptionTreesFromXml(xml)]

\* get_control_options threw
NoAnswer == [failed |-> TRUE]

\* What get_control_options answers when it does: the command is no part of the
\* editor, and the model lets it answer with the three trees of the game.
BackendAnswers ==
    {ParseOptionTreesFromXml([d \in DeviceTypes |->
        << Element("root", 0, Null), Element("master", 1, Null),
           Element(CurveFamily(d), 2, Null), Element("inversion", 3, Null),
           Element("pitch", 4, curve) >>]) : curve \in {Null, PitchCurve}}

\* controlsData after loadControlsData()
LoadedControlsData(answer, xml) ==
    IF answer = NoAnswer THEN LoadControlsDataFromXml(xml)
    ELSE [via |-> "backend", data |-> answer]

\* controlsData = null
NotLoaded == [via |-> "none", data |-> Null, writes |-> 0]

\* no curve has been evaluated
NoCurveCall == [called |-> FALSE]

(***************************************************************************)
(* interpolateCurve.  The in, the out and the input are integers in        *)
(* hundredths.  A result is the exact quotient num/den in hundredths, with *)
(* den > 0 and in lowest terms; den = 0 stands for the values a division   *)
(* by zero yields: 0/0 is NaN, 1/0 is Infinity and -1/0 is -Infinity.      *)
(***************************************************************************)
Abs(n) == IF n < 0 THEN -n ELSE n
Sign(n) == IF n < 0 THEN -1 ELSE IF n > 0 THEN 1 ELSE 0

RECURSIVE Gcd(_, _)
Gcd(a, b) == IF b = 0 THEN a ELSE Gcd(b, a % b)

\* the number n / d as JavaScript computes it from two numbers
Divide(n, d) ==
    IF d = 0 THEN [num |-> Sign(n), den |-> 0]
    ELSE LET g == Gcd(Abs(n), Abs(d))
         IN [num |-> (Sign(d) * n) \div g, den |-> Abs(d) \div g]

Number(n) == [num |-> n, den |-> 1]
NaN == [num |-> 0, den |-> 0]

\* a * b and a + b, with NaN and the infinities
Times(a, b) == Divide(a.num * b.num, a.den * b.den)
Plus(a, b) ==
    IF a.den # 0 /\ b.den # 0 THEN Divide(a.num * b.den + b.num * a.den, a.den * b.den)
    ELSE IF a.den = 0 /\ b.den = 0
         THEN IF a.num = b.num THEN a ELSE NaN
         ELSE IF a.den = 0 THEN a ELSE b

\* [...points].sort((a, b) => a.in - b.in): the sort is stable, points with the same in
\* keep the order the caller gave them
RECURSIVE SortByIn(_)
SortByIn(points) ==
    IF points = <<>> THEN <<>>
    ELSE LET sorted == SortByIn(Front(points))
             p == Last(points)
             n == Cardinality({k \in 1..Len(sorted) : sorted[k].in <= p.in})
         IN SubSeq(sorted, 1, n) \o <<p>> \o SubSeq(sorted, n + 1, Len(sorted))

\* interpolateCurve(input, points) for a list of points (null is the empty list)
InterpolateCurve(input, points) ==
    IF points = <<>> THEN Number(input)
    ELSE LET sorted == SortByIn(points)
             first == sorted[1]
             lastPoint == sorted[Len(sorted)]
             reached == {i \in 1..Len(sorted) : sorted[i].in >= input}
             stop == IF reached = {} THEN Len(sorted) ELSE Min(reached)
             below == {i \in 1..stop : sorted[i].in <= input}
             lower == IF below = {} THEN [in |-> 0, out |-> 0]
                      ELSE sorted[CHOOSE i \in below : \A j \in below : j <= i]
             upper == IF reached = {} THEN [in |-> 100, out |-> 100] ELSE sorted[stop]
         IN IF input <= first.in
            THEN Times(Number(first.out), Divide(input, first.in))
            ELSE IF input >= lastPoint.in
            THEN Plus(Number(lastPoint.out),
                      Times(Divide(input - lastPoint.in, 100 - lastPoint.in),
                            Number(100 - lastPoint.out)))
            ELSE IF lower.in = upper.in THEN Number(lower.out)
            ELSE Plus(Number(lower.out),
                      Times(Divide(input - lower.in, upper.in - lower.in),
                            Number(upper.out - lower.out)))

\* the caller's list after interpolateCurve: the sort works on a copy
PointsAfterInterpolate(points) == points

(***************************************************************************)
(* Curve objects.  The curve handlers of the settings panel change curve   *)
(* objects in place, so for them a curve is an object with a name:         *)
(* curveObjects holds the value of every curve object in memory, the       *)
(* curve of the k-th node of controlsData[d] is CurveObject(d, k), the     *)
(* n-th object a handler allocates is CurveObject("new", n), and the curve *)
(* field of a record a handler writes holds [ref |-> name].                *)
(***************************************************************************)
\* the nodes of the tree of class d that hold a curve: the pitch option of the gamepad
\* and of the joystick has a nonlinearity_curve, so parseCurve gave its node (and the
\* copies of it) a curve; the pitch option of the mouse has none
NodesWithCurve(d) ==
    {k \in 1..Len(controlsData[d]) : d # "keyboard" /\ controlsData[d][k].name = "pitch"}

\* node.curve of the k-th node of the tree of class d, null for a node without curve
NodeCurveObject(d, k) == IF k \in NodesWithCurve(d) THEN CurveObject(d, k) ELSE NoObject

\* the curve objects of the trees, each with the value parseCurve returned
NodeCurves ==
    [id \in UNION {{CurveObject(d, k) : k \in NodesWithCurve(d)} : d \in DeviceTypes}
        |-> PitchCurve]

(***************************************************************************)
(* The state machine.  loadedOptions is the deviceOptions array of the     *)
(* latest loadControlSettings call for as long as the store is what that   *)
(* call left, and the empty array otherwise.  syncedOptions is the payload *)
(* of the latest update_control_options call for as long as the store has  *)
(* not been written since, and NoSync otherwise.  unsyncedEdits holds      *)
(* while the store has an edit of the user (a set, a propagation, a reset) *)
(* that no later sync has carried.                                         *)
(***************************************************************************)
Init ==
    /\ currentDeviceType = "keyboard"
    /\ currentGamepadInstance = 1
    /\ currentJoystickInstance = 1
    /\ selectedNode = Null
    /\ hasUnsavedChanges = FALSE
    /\ userSettings = EmptyStore
    /\ syncDebounceTimer = 0
    /\ loadedOptions = <<>>
    /\ timers = {}
    /\ burst = [calls |-> 0, syncs |-> 0]
    /\ unsyncedEdits = FALSE
    /\ syncedOptions = NoSync
    /\ treeLoad = NotLoaded
    /\ curveEval = NoCurveCall
    /\ syncErrors = <<>>
    /\ curveObjects = NodeCurves

\* the bucket the lookups of the current selection read
Settings == CurrentSettings(userSettings, currentDeviceType,
                            currentGamepadInstance, currentJoystickInstance)

\* the click listener of the device tabs, then switchDeviceType(deviceId)
SwitchDeviceType(deviceType, instance) ==
    /\ \/ deviceType # currentDeviceType
       \/ deviceType = "joystick" /\ instance # currentJoystickInstance
       \/ deviceType = "gamepad" /\ instance # currentGamepadInstance
    /\ currentDeviceType' = deviceType
    /\ currentJoystickInstance' =
          IF deviceType = "joystick" THEN instance ELSE currentJoystickInstance
    /\ currentGamepadInstance' =
          IF deviceType = "gamepad" THEN instance ELSE currentGamepadInstance
    /\ selectedNode' = Null
    /\ UNCHANGED <<hasUnsavedChanges, userSettings, syncDebounceTimer, loadedOptions>>
    /\ UNCHANGED <<syncVars, syncErrors, curveObjects, treeLoad, curveEval>>

\* a selectTreeNode without the return for disabled nodes
SelectAnyTreeNode(path) ==
    /\ selectedNode' = FindNodeByPath(controlsData[currentDeviceType], path)
    /\ UNCHANGED <<syncErrors, curveObjects, treeLoad, curveEval, currentDeviceType,
                   currentGamepadInstance, currentJoystickInstance, hasUnsavedChanges,
                   userSettings, syncDebounceTimer, loadedOptions>>
    /\ UNCHANGED syncVars

\* the click listener of a tree node, then selectTreeNode(path)
SelectTreeNode(path) ==
    LET node == FindNodeByPath(controlsData[currentDeviceType], path)
    IN /\ selectedNode' = IF node # Null /\ node.disabled THEN selectedNode ELSE node
       /\ UNCHANGED <<syncErrors, curveObjects, treeLoad, curveEval, currentDeviceType, currentGamepadInstance, currentJoystickInstance,
                      hasUnsavedChanges, userSettings, syncDebounceTimer, loadedOptions>>
       /\ UNCHANGED syncVars

\* renderSettingsPanel shows the invert toggle, the override button and the reset
\* button for a leaf of the inversion section only
ShowInvertSection(node) ==
    /\ node # Null
    /\ IsLeafNode(controlsData[currentDeviceType], node)
    /\ node.sectionType \in {"", "inversion"}

\* setUserSetting(path, settingName, value), sync scheduling included
SetUserSetting(path, settingName, value) ==
    /\ userSettings' = StoreAfterSet(userSettings, currentDeviceType, currentGamepadInstance,
                                     currentJoystickInstance, path, settingName, value)
    /\ TotalRecords(userSettings') <= MaxRecords
    /\ hasUnsavedChanges' = TRUE
    /\ syncDebounceTimer' = debouncedSyncToBackend(syncDebounceTimer, timers).handle
    /\ timers' = debouncedSyncToBackend(syncDebounceTimer, timers).timers
    /\ burst' = BurstAfterCalls(burst, syncDebounceTimer, timers, 1)
    /\ unsyncedEdits' = TRUE
    /\ syncedOptions' = NoSync
    /\ loadedOptions' = <<>>
    /\ UNCHANGED <<syncErrors, curveObjects, treeLoad, curveEval, currentDeviceType, currentGamepadInstance, currentJoystickInstance,
                   selectedNode>>

\* the change listener of the invert toggle
InvertToggle(checked) ==
    /\ ShowInvertSection(selectedNode)
    /\ SetUserSetting(selectedNode.path, "invert", checked)

\* getUserSettingWithInheritance(path, settingName, null).value !== null: no stored
\* value is null, so the value is null exactly when no lookup of the walk finds one
ResolvesToValue(settings, path, settingName) ==
    \E i \in 1..Len(path) : LookupSetting(settings, SubSeq(path, 1, i), settingName).found

\* the click listener of the Override button of the inversion section
OverrideInherited ==
    /\ ShowInvertSection(selectedNode)
    /\ ResolvesToValue(Settings, selectedNode.path, "invert")
    /\ LET inheritedInfo == getUserSettingWithInheritance(Settings, selectedNode.path,
                                                          "invert", Null)
       IN SetUserSetting(selectedNode.path, "invert", inheritedInfo.value)

\* the click listener of the reset button: resetNodeSettings(node)
ResetNodeSettings ==
    /\ ShowInvertSection(selectedNode)
    /\ userSettings' =
          CASE currentDeviceType = "joystick" ->
                  IF currentJoystickInstance \in DOMAIN userSettings.joystick
                  THEN [userSettings EXCEPT !.joystick[currentJoystickInstance] =
                                               DeleteKey(@, selectedNode.path)]
                  ELSE userSettings
            [] currentDeviceType = "gamepad" ->
                  [userSettings EXCEPT !.gamepad.flat = DeleteKey(@, selectedNode.path)]
            [] OTHER ->
                  [userSettings EXCEPT !.keyboard = DeleteKey(@, selectedNode.path)]
    /\ hasUnsavedChanges' = FALSE
    /\ loadedOptions' = <<>>
    /\ unsyncedEdits' = (unsyncedEdits \/ userSettings' # userSettings)
    /\ syncedOptions' = IF userSettings' # userSettings THEN NoSync ELSE syncedOptions
    /\ UNCHANGED <<syncErrors, curveObjects, treeLoad, curveEval, currentDeviceType, currentGamepadInstance, currentJoystickInstance,
                   selectedNode, syncDebounceTimer, timers, burst>>

\* index of a node of a tree
NodeIndex(root, node) == Min({k \in 1..Len(root) : root[k] = node})

\* DescendantPaths with the node's own path first
DescendantPathsWithSelf(root, node) ==
    LET k == NodeIndex(root, node)
    IN [j \in 1..(SubtreeEnd(root, k) - k + 1) |-> root[k + j - 1].path]

\* the paths applyToDescendants visits from node.children.forEach on: the strict
\* descendants of the node, each child before its own children
DescendantPaths(root, node) ==
    LET k == NodeIndex(root, node)
    IN [j \in 1..(SubtreeEnd(root, k) - k) |-> root[k + j].path]

\* the store after applyToDescendants has run on the paths: two setUserSetting calls each
RECURSIVE StoreAfterPropagate(_, _, _, _, _, _, _, _)
StoreAfterPropagate(us, deviceType, gamepadInstance, joystickInstance, paths, curveMode, settingName, value) ==
    IF paths = <<>> THEN us
    ELSE LET withMode == StoreAfterSet(us, deviceType, gamepadInstance, joystickInstance,
                                       Head(paths), "curveMode", curveMode)
             withValue == StoreAfterSet(withMode, deviceType, gamepadInstance,
                                        joystickInstance, Head(paths), settingName, value)
         IN StoreAfterPropagate(withValue, deviceType, gamepadInstance, joystickInstance,
                                Tail(paths), curveMode, settingName, value)

\* the nodes of each tree for which !node.children || node.children.length === 0
ChildlessNodes ==
    [d \in DeviceTypes |->
        {controlsData[d][k] : k \in {j \in 1..Len(controlsData[d]) :
                                        IsLeafNode(controlsData[d], controlsData[d][j])}}]

\* the body shared by propagateCurveToChildren and propagateExponentToChildren: an early
\* return for a node without children, else setUserSetting twice for every descendant
PropagateToChildren(node, curveMode, settingName, value) ==
    /\ node # Null
    /\ IF node \in ChildlessNodes[currentDeviceType]
       THEN UNCHANGED vars
       ELSE /\ UNCHANGED <<syncErrors, curveObjects, treeLoad, curveEval, currentDeviceType, currentGamepadInstance, currentJoystickInstance,
                           selectedNode>>
            /\ hasUnsavedChanges' = TRUE
            /\ LET calls == 2 * Len(DescendantPaths(controlsData[currentDeviceType], node))
               IN /\ syncDebounceTimer' =
                        DebouncedSyncCalls(syncDebounceTimer, timers, calls).handle
                  /\ timers' = DebouncedSyncCalls(syncDebounceTimer, timers, calls).timers
                  /\ burst' = BurstAfterCalls(burst, syncDebounceTimer, timers, calls)
            /\ unsyncedEdits' = TRUE
            /\ syncedOptions' = NoSync
            /\ loadedOptions' = <<>>
            /\ userSettings' =
                  StoreAfterPropagate(userSettings, currentDeviceType, currentGamepadInstance,
                                      currentJoystickInstance,
                                      DescendantPaths(controlsData[currentDeviceType], node),
                                      curveMode, settingName, value)
            /\ TotalRecords(userSettings') <= MaxRecords

\* propagateCurveToChildren(node, curve); the JSON copies of the curve equal the curve
PropagateCurveToChildren(node, curve) == PropagateToChildren(node, "curve", "curve", curve)

\* propagateExponentToChildren(node, exponent)
PropagateExponentToChildren(node, exponent) ==
    PropagateToChildren(node, "exponent", "exponent", exponent)

\* window.loadControlSettings(deviceOptions); isArray is Array.isArray(deviceOptions)
LoadControlSettings(isArray, deviceOptions) ==
    /\ userSettings' = IF ~isArray THEN userSettings
                       ELSE StoreAfterLoadControlSettings(deviceOptions)
    /\ loadedOptions' = IF ~isArray THEN loadedOptions ELSE deviceOptions
    /\ unsyncedEdits' = IF ~isArray THEN unsyncedEdits ELSE FALSE
    /\ syncedOptions' = IF ~isArray THEN syncedOptions ELSE NoSync
    /\ UNCHANGED <<syncErrors, curveObjects, treeLoad, curveEval, currentDeviceType, currentGamepadInstance, currentJoystickInstance,
                   selectedNode, hasUnsavedChanges, syncDebounceTimer, timers, burst>>

\* window.loadControlsFromFile(loadedData), devices being loadedData.devices
LoadControlsFromFile(devices) ==
    /\ userSettings' = StoreAfterLoadControlsFromFile(devices)
    /\ hasUnsavedChanges' = FALSE
    /\ loadedOptions' = <<>>
    /\ unsyncedEdits' = FALSE
    /\ syncedOptions' = NoSync
    /\ UNCHANGED <<syncErrors, curveObjects, treeLoad, curveEval, currentDeviceType, currentGamepadInstance, currentJoystickInstance,
                   selectedNode, syncDebounceTimer, timers, burst>>

\* window.clearControlSettings()
ClearControlSettings ==
    /\ userSettings' = EmptyStore
    /\ hasUnsavedChanges' = FALSE
    /\ loadedOptions' = <<>>
    /\ unsyncedEdits' = FALSE
    /\ syncedOptions' = NoSync
    /\ UNCHANGED <<syncErrors, curveObjects, treeLoad, curveEval, currentDeviceType, currentGamepadInstance, currentJoystickInstance,
                   selectedNode, syncDebounceTimer, timers, burst>>

\* window.markControlsSettingsSaved()
MarkControlsSettingsSaved ==
    /\ hasUnsavedChanges' = FALSE
    /\ UNCHANGED <<syncErrors, curveObjects, treeLoad, curveEval, currentDeviceType, currentGamepadInstance, currentJoystickInstance,
                   selectedNode, userSettings, syncDebounceTimer, loadedOptions>>
    /\ UNCHANGED syncVars

\* The callback of the pending timer id runs: update_control_options is invoked with
\* the flat list unless the list is empty.
SyncTimerFires(id) ==
    /\ id \in timers
    /\ timers' = timers \ {id}
    /\ LET controlOptions == SyncPayload(userSettings)
       IN IF Len(controlOptions) > 0
          THEN /\ syncedOptions' = [sent |-> TRUE, controlOptions |-> controlOptions]
               /\ burst' = [burst EXCEPT !.syncs = @ + 1]
               /\ unsyncedEdits' = FALSE
          ELSE UNCHANGED <<syncedOptions, burst, unsyncedEdits>>
    /\ UNCHANGED <<syncErrors, curveObjects, treeLoad, curveEval, currentDeviceType, currentGamepadInstance, currentJoystickInstance,
                   selectedNode, hasUnsavedChanges, userSettings, loadedOptions,
                   syncDebounceTimer>>

\* at most this many sync errors are logged
MaxSyncErrors == 1

\* a catch block that would drop the store
StoreDroppedOnSyncError(us) == EmptyStore

\* what the catch block of the timer callback leaves of the store
StoreAfterSyncError(us) == us

\* The callback of the pending timer id runs and a call it awaits rejects: the call of
\* update_control_options (the backend has not taken the options) or, after it, the call
\* of cacheUserCustomizations.  The catch block logs the error.
SyncTimerFails(id, stage) ==
    /\ id \in timers
    /\ Len(syncErrors) < MaxSyncErrors
    /\ Len(SyncPayload(userSettings)) > 0
    /\ timers' = timers \ {id}
    /\ syncErrors' = Append(syncErrors, stage)
    /\ burst' = [burst EXCEPT !.syncs = @ + 1]
    /\ IF stage = "cache"
       THEN /\ syncedOptions' = [sent |-> TRUE, controlOptions |-> SyncPayload(userSettings)]
            /\ unsyncedEdits' = FALSE
       ELSE UNCHANGED <<syncedOptions, unsyncedEdits>>
    /\ userSettings' = StoreAfterSyncError(userSettings)
    /\ UNCHANGED <<curveObjects, treeLoad, curveEval, currentDeviceType, currentGamepadInstance,
                   currentJoystickInstance, selectedNode, hasUnsavedChanges, loadedOptions,
                   syncDebounceTimer>>

\* the paths the rendered tree of the current device class offers for a click
RenderedPaths == {controlsData[currentDeviceType][k].path :
                     k \in 1..Len(controlsData[currentDeviceType])}

\* What the backend hands to loadControlSettings in Spec: one <options> element of any
\* device class, with or without an instance, carrying one of a few option lists.
MainOptionLists ==
    { <<>>,
      <<Option("pitch", << <<"exponent", "2">> >>, OnePoint)>>,
      <<Option("inversion", << <<"exponent", "2">> >>, <<>>),
        Option("master", << <<"exponent", "1.0">> >>, <<>>)>>,
      <<Option("pitch", << <<"invert", "1">>, <<"exponent", "2">> >>, <<>>),
        Option("inversion", << <<"invert", "0">> >>, <<>>)>> }

\* instance 0 stands for a missing instance attribute
DeviceTargets == { <<"keyboard", 0>>, <<"gamepad", MaxInstance>>, <<"joystick", MaxInstance>> }

DeviceOptionsInputs ==
    {<<[device_type |-> t[1], instance |-> t[2], control_options |-> os]>> :
        t \in DeviceTargets, os \in MainOptionLists}

\* What a save file holds in Spec.
FileInputs ==
    {[keyboard |-> k, gamepad |-> gj[1], joystick |-> gj[2]] :
        k \in { <<>>, <<[name |-> <<"pitch">>, settings |-> [invert |-> FALSE]]>> },
        gj \in { << <<>>, <<>> >>,
                 << (MaxInstance :> <<[name |-> <<"pitch">>, settings |-> [invert |-> TRUE]]>>),
                    <<>> >>,
                 << <<>>,
                    (1 :> <<[name |-> <<"pitch">>,
                             settings |-> [curveMode |-> "exponent", exponent |-> 200]]>>) >> }}

Next ==
    \/ \E d \in DeviceTypes, i \in Instances : SwitchDeviceType(d, i)
    \/ \E p \in RenderedPaths : SelectTreeNode(p)
    \/ \E checked \in BOOLEAN : InvertToggle(checked)
    \/ OverrideInherited
    \/ ResetNodeSettings
    \/ \E in \in ({TRUE} \X DeviceOptionsInputs) \cup {<<FALSE, <<>>>>} :
          LoadControlSettings(in[1], in[2])
    \/ \E devices \in FileInputs : LoadControlsFromFile(devices)
    \/ ClearControlSettings
    \/ MarkControlsSettingsSaved
    \/ \E id \in timers : SyncTimerFires(id)

Spec == Init /\ [][Next]_vars

(***************************************************************************)
(* SpecConvert: the two loads applied to every input of the bounded sets,  *)
(* each from the cleared store (a load replaces the store, so what it      *)
(* leaves does not depend on the store before it).                         *)
(***************************************************************************)
NextConvert ==
    \/ /\ userSettings = EmptyStore
       /\ \E e \in DeviceEntries(MaxOptions) : LoadControlSettings(TRUE, <<e>>)
    \/ /\ userSettings = EmptyStore
       /\ \E t \in Buckets : \E b \in FileBuckets(t[1], MaxRecords) :
             LoadControlsFromFile(FileOfOneBucket(t[1], t[2], b))
    \/ ClearControlSettings

SpecConvert == Init /\ [][NextConvert]_vars

(***************************************************************************)
(* SpecPropagate: the two propagate functions, which no listener of the    *)
(* file calls, applied to any node of the current tree with any value, in  *)
(* the store a save file left.  The device tab is chosen before the first  *)
(* propagation, so the propagations of a run all write one bucket.         *)
(***************************************************************************)
\* the exponents and the curve handed to the propagate functions
PropagatedExponents == {100, 200}
PropagatedCurves == {[points |-> <<[in |-> 50, out |-> 25]>>]}

\* the nodes of the current tree
CurrentNodes == {controlsData[currentDeviceType][k] :
                    k \in 1..Len(controlsData[currentDeviceType])}

NextPropagate ==
    \/ /\ ~hasUnsavedChanges
       /\ \E d \in DeviceTypes, i \in Instances : SwitchDeviceType(d, i)
    \/ /\ userSettings = EmptyStore
       /\ \E devices \in FileInputs : LoadControlsFromFile(devices)
    \/ ClearControlSettings
    \/ \E node \in CurrentNodes, exponent \in PropagatedExponents :
          PropagateExponentToChildren(node, exponent)
    \/ \E node \in CurrentNodes, curve \in PropagatedCurves :
          PropagateCurveToChildren(node, curve)
    \/ \E id \in timers : SyncTimerFires(id)

SpecPropagate == Init /\ [][NextPropagate]_vars

(***************************************************************************)
(* SpecSync: the edits of the settings panel and the sync timer, on the    *)
(* store a save file left.  The device tab is chosen while nothing is      *)
(* unsaved, so the edits of a burst all write one bucket.                  *)
(***************************************************************************)
NextSync ==
    \/ /\ ~hasUnsavedChanges
       /\ \E d \in DeviceTypes, i \in Instances : SwitchDeviceType(d, i)
    \/ /\ userSettings = EmptyStore
       /\ \E devices \in FileInputs : LoadControlsFromFile(devices)
    \/ \E p \in RenderedPaths : SelectTreeNode(p)
    \/ \E checked \in BOOLEAN : InvertToggle(checked)
    \/ ResetNodeSettings
    \/ \E id \in timers : SyncTimerFires(id)

SpecSync == Init /\ [][NextSync]_vars

\* the browser runs the callback of a pending timer in the end
SpecSyncFair == SpecSync /\ WF_vars(\E id \in timers : SyncTimerFires(id))

(***************************************************************************)
(* SpecLoad: loadControlsData with every answer of the backend and every   *)
(* document of the model, each from the state before the first load (what  *)
(* a load leaves does not depend on what controlsData held), and writes in *)
(* place to the nodes and the curves of the trees it left in controlsData. *)
(***************************************************************************)
\* at most this many writes in place are made to the trees of one load
MaxWrites == 1

\* loadControlsData(), called by initializeControlsEditor
LoadControlsData(answer, xml) ==
    /\ treeLoad' = [via |-> LoadedControlsData(answer, xml).via,
                    data |-> LoadedControlsData(answer, xml).data,
                    writes |-> 0]
    /\ UNCHANGED <<syncErrors, curveObjects, currentDeviceType, currentGamepadInstance, currentJoystickInstance,
                   selectedNode, hasUnsavedChanges, userSettings, syncDebounceTimer,
                   loadedOptions, syncVars, curveEval>>

\* indices of the nodes of the tree controlsData holds for a device class
LoadedNodeIndices(deviceType) ==
    IF treeLoad.via = "none" THEN {}
    ELSE IF treeLoad.data[deviceType] = Null THEN {}
    ELSE 1..Len(treeLoad.data[deviceType].root)

\* a caller writes a field of the k-th node of controlsData[deviceType] in place
WriteNode(deviceType, k) ==
    /\ treeLoad.writes < MaxWrites
    /\ k \in LoadedNodeIndices(deviceType)
    /\ LET id == treeLoad.data[deviceType].root[k].node
       IN treeLoad' = [treeLoad EXCEPT !.writes = @ + 1,
                                       !.data[deviceType].nodes[id].disabled = ~@]
    /\ UNCHANGED <<syncErrors, curveObjects, currentDeviceType, currentGamepadInstance, currentJoystickInstance,
                   selectedNode, hasUnsavedChanges, userSettings, syncDebounceTimer,
                   loadedOptions, syncVars, curveEval>>

\* a caller writes a point of the curve of the k-th node of controlsData[deviceType]
WriteCurvePoint(deviceType, k) ==
    /\ treeLoad.writes < MaxWrites
    /\ k \in LoadedNodeIndices(deviceType)
    /\ treeLoad.data[deviceType].root[k].curve # NoObject
    /\ LET id == treeLoad.data[deviceType].root[k].curve
       IN treeLoad' = [treeLoad EXCEPT !.writes = @ + 1,
                                       !.data[deviceType].curves[id].points[1].out = 100 - @]
    /\ UNCHANGED <<syncErrors, curveObjects, currentDeviceType, currentGamepadInstance, currentJoystickInstance,
                   selectedNode, hasUnsavedChanges, userSettings, syncDebounceTimer,
                   loadedOptions, syncVars, curveEval>>

NextLoad ==
    \/ /\ treeLoad = NotLoaded
       /\ \E answer \in BackendAnswers \cup {NoAnswer},
             xml \in XmlDocuments \cup {NoDocument} : LoadControlsData(answer, xml)
    \/ \E d \in DeviceTypes : \E k \in LoadedNodeIndices(d) : WriteNode(d, k)
    \/ \E d \in DeviceTypes : \E k \in LoadedNodeIndices(d) : WriteCurvePoint(d, k)

SpecLoad == Init /\ [][NextLoad]_vars

(***************************************************************************)
(* SpecCurve: interpolateCurve applied to every input and to every list of *)
(* points of the bounded sets.                                             *)
(***************************************************************************)
\* a list of points has at most this many points
MaxPoints == 2

\* the points of the model and the inputs, which lie in [0, 1]
CurvePoints == {[in |-> i, out |-> o] : i \in {0, 50, 100}, o \in {25, 75}}
CurveInputs == {0, 25, 50, 75, 100}

\* outputVal = interpolateCurve(inputVal, curve.points)
InterpolateCurveCall(input, points) ==
    /\ curveEval' = [called |-> TRUE, input |-> input, points |-> points,
                     result |-> InterpolateCurve(input, points),
                     pointsAfter |-> PointsAfterInterpolate(points)]
    /\ UNCHANGED <<syncErrors, curveObjects, currentDeviceType, currentGamepadInstance, currentJoystickInstance,
                   selectedNode, hasUnsavedChanges, userSettings, syncDebounceTimer,
                   loadedOptions, syncVars, treeLoad>>

NextCurve ==
    /\ curveEval = NoCurveCall
    /\ \E input \in CurveInputs, points \in SeqsUpTo(CurvePoints, MaxPoints) :
          InterpolateCurveCall(input, points)

SpecCurve == Init /\ [][NextCurve]_vars

(***************************************************************************)
(* Properties of the lookups.                                              *)
(***************************************************************************)
\* the greatest element of a non-empty set of integers
Max(S) == CHOOSE x \in S : \A y \in S : x >= y

\* the bucket of a device class and instance, as the lookups read it
BucketOf(t) == CurrentSettings(userSettings, t[1], t[2], t[2])

\* the paths looked up: those of the nodes of the class's tree, and bare option names
LookupPaths(deviceType) ==
    {controlsData[deviceType][k].path : k \in 1..Len(controlsData[deviceType])}
    \cup {<<n>> : n \in OptionNames}

\* the bucket of the current selection
CurrentBucket ==
    <<currentDeviceType,
      CASE currentDeviceType = "gamepad" -> currentGamepadInstance
        [] currentDeviceType = "joystick" -> currentJoystickInstance
        [] OTHER -> 1>>

\* the buckets the properties look into: the current selection's and every one that
\* holds a record
CheckedBuckets == {t \in Buckets : t = CurrentBucket \/ BucketOf(t) # EmptyBucket}

\* Default values handed to a lookup of a setting.  Those of curveMode, exponent and
\* curve are values no record of the model holds, so a default that comes back is told
\* from a stored value; for invert both booleans are tried.
Defaults(settingName) ==
    CASE settingName = "invert" -> BOOLEAN
      [] settingName = "curveMode" -> {"default"}
      [] settingName = "exponent" -> {150}
      [] OTHER -> {[points |-> <<[in |-> 0, out |-> 0]>>]}

\* the bucket has the setting under the path or under the path's final segment
HasSetting(settings, path, settingName) ==
    \E k \in 1..Len(settings) :
        /\ settings[k].key \in {path, <<Last(path)>>}
        /\ settingName \in DOMAIN settings[k].rec

\* the proper prefixes of the path that have the setting, by their length
AncestorsWithSetting(settings, path, settingName) ==
    {k \in 1..(Len(path) - 1) : HasSetting(settings, SubSeq(path, 1, k), settingName)}

\* C1: when a path has no record of a setting (under the path or its final segment) but
\* some ancestor has, getUserSettingWithInheritance returns the value of the nearest
\* such ancestor, inherited = true and inheritedFrom = that ancestor's final segment.
C1_NearestAncestorWins ==
    \A t \in CheckedBuckets, s \in SettingNames : \A p \in LookupPaths(t[1]), d \in Defaults(s) :
        LET ancestors == AncestorsWithSetting(BucketOf(t), p, s)
            r == getUserSettingWithInheritance(BucketOf(t), p, s, d)
        IN (~HasSetting(BucketOf(t), p, s) /\ ancestors # {}) =>
              /\ r.inherited
              /\ r.inheritedFrom = p[Max(ancestors)]
              /\ r.value = getUserSetting(BucketOf(t), SubSeq(p, 1, Max(ancestors)), s, d)

\* a path inherits a setting that two of its ancestors hold with different values
C1_Witness ==
    \E t \in CheckedBuckets, s \in SettingNames : \E p \in LookupPaths(t[1]), d \in Defaults(s) :
        LET ancestors == AncestorsWithSetting(BucketOf(t), p, s)
        IN /\ ~HasSetting(BucketOf(t), p, s)
           /\ Cardinality(ancestors) >= 2
           /\ getUserSetting(BucketOf(t), SubSeq(p, 1, Max(ancestors)), s, d)
                 # getUserSetting(BucketOf(t), SubSeq(p, 1, Min(ancestors)), s, d)
           /\ getUserSettingWithInheritance(BucketOf(t), p, s, d).inherited

\* C2: when neither the path nor any ancestor has a record of the setting, the inherited
\* lookup returns the caller's default with inherited = false and inheritedFrom = null.
C2_DefaultWhenNothingStored ==
    \A t \in CheckedBuckets, s \in SettingNames : \A p \in LookupPaths(t[1]), d \in Defaults(s) :
        (/\ ~HasSetting(BucketOf(t), p, s)
         /\ AncestorsWithSetting(BucketOf(t), p, s) = {}) =>
           getUserSettingWithInheritance(BucketOf(t), p, s, d)
              = [value |-> d, inherited |-> FALSE, inheritedFrom |-> NoName]

\* a bucket holds a record for a path of several segments, and a lookup of a setting that
\* record lacks finds nothing on the whole chain
C2_Witness ==
    \E t \in CheckedBuckets, s \in SettingNames : \E p \in LookupPaths(t[1]) :
        /\ Len(p) > 1
        /\ HasKey(BucketOf(t), p)
        /\ ~HasSetting(BucketOf(t), p, s)
        /\ AncestorsWithSetting(BucketOf(t), p, s) = {}
        /\ ~getUserSettingWithInheritance(BucketOf(t), p, s, CHOOSE d \in Defaults(s) : TRUE).inherited

\* the records of the bucket that hold the setting under exactly this key
HoldersAt(settings, key, settingName) ==
    {k \in 1..Len(settings) : settings[k].key = key /\ settingName \in DOMAIN settings[k].rec}

\* C3: getUserSetting returns the value stored under the exact path if there is one,
\* otherwise the value stored under the bare final segment, otherwise the default.
C3_ExactThenBareThenDefault ==
    \A t \in CheckedBuckets, s \in SettingNames : \A p \in LookupPaths(t[1]), d \in Defaults(s) :
        LET exact == HoldersAt(BucketOf(t), p, s)
            bare == IF Len(p) > 1 THEN HoldersAt(BucketOf(t), <<Last(p)>>, s) ELSE {}
        IN getUserSetting(BucketOf(t), p, s, d) =
              IF exact # {} THEN BucketOf(t)[CHOOSE k \in exact : TRUE].rec[s]
              ELSE IF bare # {} THEN BucketOf(t)[CHOOSE k \in bare : TRUE].rec[s]
              ELSE d

\* a bucket holds a setting both under a path and under its final segment, with different
\* values, and the lookup returns the exact one
C3_Witness ==
    \E t \in CheckedBuckets, s \in SettingNames : \E p \in LookupPaths(t[1]), d \in Defaults(s) :
        LET exact == HoldersAt(BucketOf(t), p, s)
            bare == IF Len(p) > 1 THEN HoldersAt(BucketOf(t), <<Last(p)>>, s) ELSE {}
        IN /\ exact # {} /\ bare # {}
           /\ BucketOf(t)[CHOOSE k \in exact : TRUE].rec[s]
                 # BucketOf(t)[CHOOSE k \in bare : TRUE].rec[s]
           /\ getUserSetting(BucketOf(t), p, s, d)
                 = BucketOf(t)[CHOOSE k \in exact : TRUE].rec[s]

(***************************************************************************)
(* Properties of the flat option list.                                     *)
(***************************************************************************)
\* the path-keyed records generateControlOptionsXml is meant to read for a bucket
IteratedRecords(t) == IF t[1] = "gamepad" THEN userSettings.gamepad.flat ELSE BucketOf(t)

InCurveMode(r) == "curveMode" \in DOMAIN r /\ r.curveMode = "curve"

\* the record is in curve mode and holds at least one curve point
CurveStored(r) == InCurveMode(r) /\ "curve" \in DOMAIN r /\ Len(r.curve.points) >= 1

\* the record is in exponent mode and holds an exponent other than the identity 1.0
ExponentStored(r) == ~InCurveMode(r) /\ "exponent" \in DOMAIN r /\ r.exponent # 100

\* the record has something to persist
Persisted(r) == "invert" \in DOMAIN r \/ ExponentStored(r) \/ CurveStored(r)

KeptRecords(recs) == {k \in 1..Len(recs) : Persisted(recs[k].rec)}

\* the index of the j-th record that has something to persist
NthKept(recs, j) ==
    CHOOSE k \in KeptRecords(recs) : Cardinality({m \in KeptRecords(recs) : m < k}) = j - 1

\* C4: after setUserSetting(p, "invert", v) in a device class and instance, the flat list
\* generateControlOptionsXml builds for that class and instance has an entry named by
\* the final segment of p with invert = v.
C4_SetReachesFlatList ==
    [][\A checked \in BOOLEAN :
         InvertToggle(checked) =>
            LET controlOptions == generateControlOptionsXml(userSettings', CurrentBucket[1],
                                                            CurrentBucket[2])
            IN \E k \in 1..Len(controlOptions) :
                  /\ controlOptions[k].name = Last(selectedNode.path)
                  /\ "invert" \in DOMAIN controlOptions[k]
                  /\ controlOptions[k].invert = checked]_vars

\* C5: the flat list has one entry for each record that has something of its own to
\* persist, in order and named by the final segment of the record's key; invert and the
\* exponent of an entry in exponent mode are the record's own; a record whose only
\* content is the identity exponent gives no entry; every entry has at least one of
\* invert, exponent and curve.
C5_OwnRecordNoIdentityExponent ==
    \A t \in Buckets :
        LET recs == IteratedRecords(t)
            out == generateControlOptionsXml(userSettings, t[1], t[2])
        IN /\ Len(out) = Cardinality(KeptRecords(recs))
           /\ \A j \in 1..Len(out) :
                 LET r == recs[NthKept(recs, j)].rec
                 IN /\ DOMAIN out[j] \cap {"invert", "exponent", "curve"} # {}
                    /\ out[j].name = Last(recs[NthKept(recs, j)].key)
                    /\ ("invert" \in DOMAIN out[j]) = ("invert" \in DOMAIN r)
                    /\ "invert" \in DOMAIN r => out[j].invert = r.invert
                    /\ ~InCurveMode(r) =>
                          /\ ("exponent" \in DOMAIN out[j]) = ExponentStored(r)
                          /\ ExponentStored(r) => out[j].exponent = r.exponent

\* a record that holds only the identity exponent is left out of the list although the
\* record of its parent path is sent with an exponent of its own
C5_Witness ==
    \E t \in Buckets :
        LET recs == IteratedRecords(t)
            out == generateControlOptionsXml(userSettings, t[1], t[2])
        IN /\ Len(out) = 1 /\ "exponent" \in DOMAIN out[1]
           /\ \E k1, k2 \in 1..Len(recs) :
                 /\ Len(recs[k2].key) > 1 /\ recs[k1].key = Front(recs[k2].key)
                 /\ ExponentStored(recs[k1].rec)
                 /\ "exponent" \in DOMAIN recs[k2].rec /\ recs[k2].rec.exponent = 100
                 /\ ~Persisted(recs[k2].rec)

\* C6: an entry carries curve points exactly when its record is in curve mode and holds
\* at least one point; such an entry carries those points and the exponent 1.0 whatever
\* exponent the record holds; a record in curve mode without points sends no exponent.
C6_CurveOnlyInCurveMode ==
    \A t \in Buckets :
        LET recs == IteratedRecords(t)
            out == generateControlOptionsXml(userSettings, t[1], t[2])
        IN /\ Len(out) = Cardinality(KeptRecords(recs))
           /\ \A j \in 1..Len(out) :
                 LET r == recs[NthKept(recs, j)].rec
                 IN /\ ("curve" \in DOMAIN out[j]) = CurveStored(r)
                    /\ CurveStored(r) =>
                          /\ out[j].curve = r.curve
                          /\ "exponent" \in DOMAIN out[j] /\ out[j].exponent = 100
                    /\ (InCurveMode(r) /\ ~CurveStored(r)) => "exponent" \notin DOMAIN out[j]

\* a record in curve mode with points and a stored exponent of 2.0 is sent with its
\* points and the exponent 1.0
C6_Witness ==
    \E t \in Buckets :
        LET recs == IteratedRecords(t)
            out == generateControlOptionsXml(userSettings, t[1], t[2])
        IN \E j \in 1..Len(out) :
              LET r == recs[NthKept(recs, j)].rec
              IN /\ CurveStored(r)
                 /\ "exponent" \in DOMAIN r /\ r.exponent = 200
                 /\ "curve" \in DOMAIN out[j] /\ out[j].exponent = 100

\* what a path resolves to in a bucket: invert, the exponent in force (1.0 in curve
\* mode) and the curve points in force (none in exponent mode)
EffectiveSettings(settings, path) ==
    LET mode == getUserSetting(settings, path, "curveMode", "exponent")
    IN [invert |-> LookupSetting(settings, path, "invert"),
        exponent |-> IF mode = "exponent"
                     THEN getUserSetting(settings, path, "exponent", 100) ELSE 100,
        points |-> IF mode = "curve"
                   THEN getUserSetting(settings, path, "curve", [points |-> <<>>]).points
                   ELSE <<>>]

\* the store after the flat list of a bucket is loaded back
RoundTripStore(t) ==
    StoreAfterLoadControlSettings(
        ToDeviceOptions(t[1], t[2], generateControlOptionsXml(userSettings, t[1], t[2])))

TreePaths(deviceType) ==
    {controlsData[deviceType][k].path : k \in 1..Len(controlsData[deviceType])}

\* C7: for every bucket and every path of a tree node that the flat list of the bucket
\* persists, loading that list back and resolving the path in the same class and
\* instance gives the invert, exponent and curve points the path resolved to before.
C7_FlatListRoundTrip ==
    \A t \in CheckedBuckets :
        \A k \in 1..Len(BucketOf(t)) :
            LET e == BucketOf(t)[k]
            IN (/\ Persisted(e.rec)
                /\ e.key \in TreePaths(t[1])
                /\ \E m \in 1..Len(IteratedRecords(t)) : IteratedRecords(t)[m] = e) =>
                  EffectiveSettings(CurrentSettings(RoundTripStore(t), t[1], t[2], t[2]), e.key)
                     = EffectiveSettings(BucketOf(t), e.key)

(***************************************************************************)
(* Properties of loadControlSettings.                                      *)
(***************************************************************************)
\* the instance a device entry is loaded for
InstanceOf(deviceOpt) == IF deviceOpt.instance = 0 THEN 1 ELSE deviceOpt.instance

\* the bucket loadControlSettings fills for a device entry
LoadedBucket(deviceOpt) ==
    CASE deviceOpt.device_type = "joystick" ->
            IF InstanceOf(deviceOpt) \in DOMAIN userSettings.joystick
            THEN userSettings.joystick[InstanceOf(deviceOpt)] ELSE EmptyBucket
      [] deviceOpt.device_type = "gamepad" -> userSettings.gamepad.flat
      [] OTHER -> userSettings.keyboard

\* the path of the first tree node of that name, or the name when no node has it
NodePathOrName(deviceType, name) ==
    LET named == {k \in 1..Len(controlsData[deviceType]) :
                     controlsData[deviceType][k].name = name}
    IN IF named = {} THEN <<name>> ELSE controlsData[deviceType][Min(named)].path

\* the options of a device entry that no later option of the entry replaces
LastOfName(deviceOpt) ==
    {k \in 1..Len(deviceOpt.control_options) :
        \A m \in (k + 1)..Len(deviceOpt.control_options) :
            deviceOpt.control_options[m].name # deviceOpt.control_options[k].name}

HasAttribute(opt, key) == \E i \in 1..Len(opt.attributes) : opt.attributes[i][1] = key

\* C8: a loaded entry with curve points gives a record in curve mode with exactly those
\* points, whether or not it has an exponent attribute; one with an exponent attribute
\* and no points gives a record in exponent mode; one with neither sets no curveMode.
C8_LoadedCurveMode ==
    \A j \in 1..Len(loadedOptions) : \A k \in LastOfName(loadedOptions[j]) :
        LET opt == loadedOptions[j].control_options[k]
            key == NodePathOrName(loadedOptions[j].device_type, opt.name)
            bucket == LoadedBucket(loadedOptions[j])
        IN /\ HasKey(bucket, key)
           /\ LET r == RecordAt(bucket, key)
              IN /\ Len(opt.curve_points) > 0 =>
                       /\ InCurveMode(r)
                       /\ "curve" \in DOMAIN r
                       /\ r.curve.points =
                             [n \in 1..Len(opt.curve_points) |->
                                [in |-> ParseFloat(opt.curve_points[n].in_val),
                                 out |-> ParseFloat(opt.curve_points[n].out_val)]]
                 /\ (Len(opt.curve_points) = 0 /\ HasAttribute(opt, "exponent")) =>
                       /\ "curveMode" \in DOMAIN r /\ r.curveMode = "exponent"
                       /\ "curve" \notin DOMAIN r
                 /\ (Len(opt.curve_points) = 0 /\ ~HasAttribute(opt, "exponent")) =>
                       "curveMode" \notin DOMAIN r

\* an entry with both an exponent attribute and curve points has been loaded into a
\* record in curve mode
C8_Witness ==
    \E j \in 1..Len(loadedOptions) : \E k \in LastOfName(loadedOptions[j]) :
        LET opt == loadedOptions[j].control_options[k]
            key == NodePathOrName(loadedOptions[j].device_type, opt.name)
            bucket == LoadedBucket(loadedOptions[j])
        IN /\ Len(opt.curve_points) > 0 /\ HasAttribute(opt, "exponent")
           /\ HasKey(bucket, key)
           /\ InCurveMode(RecordAt(bucket, key))
           /\ "exponent" \in DOMAIN RecordAt(bucket, key)

\* C9: after loadControlSettings loads an entry named n with invert v for a device class
\* and instance, the bucket of that class and instance holds a record under the path of
\* the tree node named n (under n when there is none), and getUserSetting on that key
\* returns v: for keyboard, gamepad and joystick alike.
C9_LoadedInvertIsRead ==
    \A j \in 1..Len(loadedOptions) : \A k \in LastOfName(loadedOptions[j]) :
        LET deviceOpt == loadedOptions[j]
            opt == deviceOpt.control_options[k]
            key == NodePathOrName(deviceOpt.device_type, opt.name)
            settings == CurrentSettings(userSettings, deviceOpt.device_type,
                                        InstanceOf(deviceOpt), InstanceOf(deviceOpt))
        IN HasAttribute(opt, "invert") =>
              /\ HasKey(settings, key)
              /\ LookupSetting(settings, key, "invert")
                    = [found |-> TRUE,
                       value |-> \E i \in 1..Len(opt.attributes) :
                                    opt.attributes[i] = <<"invert", "1">>]

(***************************************************************************)
(* Properties of the save-file records.                                    *)
(***************************************************************************)
\* the records getControlsForSaving writes for a bucket
SavedBucket(t) ==
    LET saved == getControlsForSaving(userSettings)
    IN CASE t[1] = "joystick" ->
               IF t[2] \in DOMAIN saved.joystick THEN saved.joystick[t[2]] ELSE <<>>
         [] t[1] = "gamepad" ->
               IF t[2] \in DOMAIN saved.gamepad.inst THEN saved.gamepad.inst[t[2]] ELSE <<>>
         [] OTHER -> saved.keyboard

StrictDescendants(node) ==
    LET tree == controlsData[currentDeviceType]
        k == NodeIndex(tree, node)
    IN {tree[j].path : j \in (k + 1)..SubtreeEnd(tree, k)}

\* the keys of a bucket
KeysOf(bucket) == {bucket[k].key : k \in 1..Len(bucket)}

\* what a call on the node with the value must have done to the state
PropagateEffect(node, curveMode, settingName, value) ==
    LET before == Settings
        after == CurrentSettings(userSettings', currentDeviceType, currentGamepadInstance,
                                 currentJoystickInstance)
        written == StrictDescendants(node)
    IN IF written = {} THEN UNCHANGED vars
       ELSE /\ \A p \in written :
                  /\ HasKey(after, p)
                  /\ {"curveMode", settingName} \subseteq DOMAIN RecordAt(after, p)
                  /\ RecordAt(after, p).curveMode = curveMode
                  /\ RecordAt(after, p)[settingName] = value
                  /\ \A f \in SettingNames \ {"curveMode", settingName} :
                        IF HasKey(before, p) /\ f \in DOMAIN RecordAt(before, p)
                        THEN /\ f \in DOMAIN RecordAt(after, p)
                             /\ RecordAt(after, p)[f] = RecordAt(before, p)[f]
                        ELSE f \notin DOMAIN RecordAt(after, p)
            /\ KeysOf(after) = KeysOf(before) \cup written
            /\ \A p \in KeysOf(before) \ written : RecordAt(after, p) = RecordAt(before, p)
            /\ node.path \notin written
            /\ \A t \in Buckets \ {CurrentBucket} :
                  CurrentSettings(userSettings', t[1], t[2], t[2]) = BucketOf(t)
            /\ userSettings'.gamepad.flat = userSettings.gamepad.flat

\* C11: propagateExponentToChildren and propagateCurveToChildren on a node write the value
\* and the matching curveMode to the record of every strict descendant in the current
\* bucket, leave every other record (that of the node's own path included) and every
\* other bucket as they were, and change nothing at all when the node has no children.
C11_PropagateWritesDescendantsOnly ==
    [][\A node \in CurrentNodes :
         /\ \A exponent \in PropagatedExponents :
               PropagateExponentToChildren(node, exponent) =>
                  PropagateEffect(node, "exponent", "exponent", exponent)
         /\ \A curve \in PropagatedCurves :
               PropagateCurveToChildren(node, curve) =>
                  PropagateEffect(node, "curve", "curve", curve)]_vars

\* a bucket holds an exponent for a container and a different one, in exponent mode, for
\* a descendant of it: a propagation from the container has left the container's record
C11_Witness ==
    \E t \in Buckets : \E p \in KeysOf(BucketOf(t)), q \in KeysOf(BucketOf(t)) :
        /\ Len(p) < Len(q) /\ SubSeq(q, 1, Len(p)) = p
        /\ "exponent" \in DOMAIN RecordAt(BucketOf(t), p)
        /\ "exponent" \in DOMAIN RecordAt(BucketOf(t), q)
        /\ RecordAt(BucketOf(t), q).curveMode = "exponent"
        /\ RecordAt(BucketOf(t), q).exponent # RecordAt(BucketOf(t), p).exponent

(***************************************************************************)
(* Properties of resetNodeSettings.                                        *)
(***************************************************************************)
\* C12: for every device class and instance, resetNodeSettings(node) removes the record
\* of node.path from the current bucket and keeps every other record of it, so that the
\* inherited lookups of node.path no longer find the node's own record.
C12_ResetRemovesOwnRecord ==
    [][ResetNodeSettings =>
          LET before == Settings
              after == CurrentSettings(userSettings', currentDeviceType,
                                       currentGamepadInstance, currentJoystickInstance)
          IN /\ ~HasKey(after, selectedNode.path)
             /\ \A p \in KeysOf(before) \ {selectedNode.path} :
                   HasKey(after, p) /\ RecordAt(after, p) = RecordAt(before, p)
             /\ \A s \in SettingNames : \A d \in Defaults(s) :
                   getUserSettingWithInheritance(after, selectedNode.path, s, d)
                      = getUserSettingWithInheritance(DeleteKey(before, selectedNode.path),
                                                      selectedNode.path, s, d)]_vars

(***************************************************************************)
(* Properties of the debounced sync.                                       *)
(***************************************************************************)
\* C13: a call of setUserSetting cancels the pending timer before it sets a new one,
\* so at most one timer is pending, it is the one syncDebounceTimer names, and the
\* timers of one burst of calls cause at most one update_control_options call.
C13_OneTimerOneSyncPerBurst ==
    /\ Cardinality(timers) <= 1
    /\ timers \subseteq {syncDebounceTimer}
    /\ burst.syncs <= 1

\* a burst of two or more calls has ended and has caused one sync
C13_Witness ==
    /\ burst.calls = 2
    /\ burst.syncs = 1
    /\ timers = {}

\* C14: the payload of every update_control_options call is getAllControlOptions() of
\* the store as it is when the timer fires, whatever was edited since the timer was set.
C14_PayloadIsStoreAtFireTime ==
    [][\A id \in timers :
         (SyncTimerFires(id) /\ syncedOptions'.sent) =>
            /\ syncedOptions'.controlOptions = getAllControlOptions(userSettings)
            /\ userSettings' = userSettings]_vars

\* a burst of two or more calls has been synced with the options of two devices
C14_Witness ==
    /\ burst.calls = 2
    /\ syncedOptions.sent
    /\ Len(syncedOptions.controlOptions) >= 2
    /\ syncedOptions.controlOptions = getAllControlOptions(userSettings)

\* the options the payload carries for a device class and instance
SyncedOptionsOf(t) ==
    LET hits == {k \in 1..Len(syncedOptions.controlOptions) :
                    /\ syncedOptions.controlOptions[k].deviceType = t[1]
                    /\ syncedOptions.controlOptions[k].instance = t[2]}
    IN IF hits = {} THEN <<>> ELSE syncedOptions.controlOptions[Min(hits)].options

\* the backend has got a sync since the store was last written, and the sync carries for
\* every bucket the options of the records the bucket holds
SyncReflectsStore ==
    /\ syncedOptions.sent
    /\ \A t \in Buckets : SyncedOptionsOf(t) = ControlOptionsOf(BucketOf(t))

\* C15: whenever the store has an edit the backend has not got, the backend gets in the
\* end a sync that reflects the store, whatever the store then holds.
C15_EditsAreSyncedInTheEnd == unsyncedEdits ~> SyncReflectsStore

(***************************************************************************)
(* Properties of the loaded trees.                                         *)
(***************************************************************************)
\* the values a tree in memory c holds for a sequence of objects: each node, with its curve
ViewOf(c, objs) ==
    [k \in 1..Len(objs) |->
        [node |-> c.nodes[objs[k].node],
         curve |-> IF objs[k].curve = NoObject THEN Null ELSE c.curves[objs[k].curve]]]

\* indices of the section roots of the curves section in the tree c
CurvesRoots(c) ==
    {k \in 1..Len(c.root) : /\ c.nodes[c.root[k].node].isSection
                            /\ c.nodes[c.root[k].node].sectionType = "curves"}

\* the tree c has the two sections of a multi-instance class
TwoSections(c) == CurvesRoots(c) # {}

\* controlsData holds for the device class a tree of two sections that
\* transformToSCHierarchy has built
Transformed(deviceType) ==
    /\ treeLoad.via = "xml"
    /\ treeLoad.data[deviceType] # Null
    /\ TwoSections(treeLoad.data[deviceType])

\* the objects of the inversion section and of the curves section of the tree c
InversionSection(c) == SubSeq(c.root, 2, Min(CurvesRoots(c)) - 1)
CurvesSection(c) == SubSeq(c.root, Min(CurvesRoots(c)), Len(c.root))

\* C16: for gamepad and joystick the inversion section, the curves section and the raw
\* hierarchy share no node and no curve: a write in place to a node or to a curve point
\* of one section leaves the values of the other section and of the raw hierarchy as
\* they were.
C16_SectionsShareNoObject ==
    [][\A d \in {"gamepad", "joystick"} : \A k \in LoadedNodeIndices(d) :
          ((WriteNode(d, k) \/ WriteCurvePoint(d, k)) /\ Transformed(d)) =>
              LET before == treeLoad.data[d]
                  after == treeLoad'.data[d]
              IN /\ ViewOf(after, before.raw) = ViewOf(before, before.raw)
                 /\ k < Min(CurvesRoots(before)) =>
                       ViewOf(after, CurvesSection(before)) = ViewOf(before, CurvesSection(before))
                 /\ k >= Min(CurvesRoots(before)) =>
                       ViewOf(after, InversionSection(before))
                           = ViewOf(before, InversionSection(before))]_vars

\* a curve point of one section has been written, and the same point of the other
\* section and of the raw hierarchy is as it was parsed
C16_Witness ==
    /\ treeLoad.writes >= 1
    /\ \E d \in {"gamepad", "joystick"} :
          /\ Transformed(d)
          /\ LET c == treeLoad.data[d]
                 inv == ViewOf(c, InversionSection(c))
                 cur == ViewOf(c, CurvesSection(c))
                 raw == ViewOf(c, c.raw)
             IN \E k \in 1..Len(cur) :
                   /\ cur[k].curve # Null
                   /\ cur[k].curve # inv[k].curve
                   /\ inv[k].curve = PitchCurve
                   /\ \E m \in 1..Len(raw) : raw[m].curve = PitchCurve

\* a path with its inversion segment replaced by sensitivity_curves
ReplaceSegment(path) ==
    [i \in 1..Len(path) |-> IF path[i] = "inversion" THEN "sensitivity_curves" ELSE path[i]]

\* the path p is a dot-prefix of the path q
IsPathPrefix(p, q) == Len(p) <= Len(q) /\ SubSeq(q, 1, Len(p)) = p

\* C17: in the curves section every node, the section root included, has the path of
\* its counterpart in the inversion section with the segment inversion replaced by
\* sensitivity_curves, wherever the segment stands, and the path of the section root
\* is a prefix of the paths of all nodes of the section.
C17_CurvesPathsRenamed ==
    \A d \in {"gamepad", "joystick"} :
        Transformed(d) =>
            LET c == treeLoad.data[d]
                inv == ViewOf(c, InversionSection(c))
                cur == ViewOf(c, CurvesSection(c))
            IN \A k \in 1..Len(cur) :
                  /\ cur[k].node.path = ReplaceSegment(inv[k].node.path)
                  /\ IsPathPrefix(cur[1].node.path, cur[k].node.path)

\* C18: once loadControlsData has run, by whichever of its paths, controlsData holds for
\* each of keyboard, gamepad and joystick a root node with a children list, and never
\* null.
C18_EveryClassHasARoot ==
    treeLoad.via # "none" =>
        \A d \in DeviceTypes :
            /\ treeLoad.data[d] # Null
            /\ Len(treeLoad.data[d].root) >= 1

(***************************************************************************)
(* Properties of interpolateCurve.                                         *)
(***************************************************************************)
\* the least and the greatest in of a non-empty list of points
LeastIn(points) == Min({points[k].in : k \in 1..Len(points)})
GreatestIn(points) == Max({points[k].in : k \in 1..Len(points)})

\* the outs of the points of a list that have a given in
OutsAt(points, in) == {points[k].out : k \in {j \in 1..Len(points) : points[j].in = in}}

\* C19: interpolateCurve never divides by zero.  For a non-empty list and an input in
\* [0, 1] the result is a defined number; for the input 0 and a smallest point with
\* in = 0 it is that point's out, and for the input 1 and a largest point with in = 1
\* it is that point's out.
C19_ResultIsANumber ==
    (curveEval.called /\ curveEval.points # <<>>) =>
        /\ curveEval.result.den # 0
        /\ (curveEval.input = 0 /\ LeastIn(curveEval.points) = 0) =>
              \E out \in OutsAt(curveEval.points, 0) : curveEval.result = Number(out)
        /\ (curveEval.input = 100 /\ GreatestIn(curveEval.points) = 100) =>
              \E out \in OutsAt(curveEval.points, 100) : curveEval.result = Number(out)

\* the lists that hold the points of a list in another order
Reorderings(points) ==
    {[k \in 1..Len(points) |-> points[f[k]]] :
        f \in {g \in [1..Len(points) -> 1..Len(points)] :
                  \A a, b \in 1..Len(points) : a # b => g[a] # g[b]}}

\* C20: interpolateCurve gives the same result for the points in every order, also when
\* two points have the same in, and leaves the caller's list as it was.
C20_OrderOfPointsIsIrrelevant ==
    curveEval.called =>
        /\ \A perm \in Reorderings(curveEval.points) :
              InterpolateCurve(curveEval.input, perm) = curveEval.result
        /\ curveEval.pointsAfter = curveEval.points

\* the raw hierarchy a tree in memory was built from, as it is now
RawView(c) == [k \in 1..Len(c.raw) |-> c.nodes[c.raw[k].node]]

\* controlsData holds for the device class what parseOptionTreesFromXml left
Parsed(deviceType) ==
    /\ treeLoad.via = "xml"
    /\ treeLoad.data[deviceType] # Null

\* the child of master that is the curve-family container of the device class, 0 if none
MatchingContainer(rawData, deviceType) ==
    LET master == FindChild(rawData, 1, {"master"})
    IN IF master = 0 THEN 0 ELSE FindChild(rawData, master, {CurveFamily(deviceType)})

\* C22: the content node is the curve-family container of the device class (mouse_curves
\* for keyboard, thumbstick_curves for gamepad, joystick_curves for joystick), also when
\* master holds several containers and that one is not the first: the inversion section
\* of the loaded tree is the inversion subtree of that container.
C22_ContainerOfTheDeviceClass ==
    \A d \in DeviceTypes :
        (Parsed(d) /\ MatchingContainer(RawView(treeLoad.data[d]), d) # 0) =>
            LET c == treeLoad.data[d]
                raw == RawView(c)
                inv == FindChild(raw, MatchingContainer(raw, d), {"inversion"})
            IN inv # 0 =>
                  /\ Len(c.root) >= 2
                  /\ c.nodes[c.root[2].node].path = raw[inv].path

\* C23: when the content node has no child named inversion, the loaded tree is the
\* content node itself, unmodified: the container reached through master, and the raw
\* root only when there is no such container.
C23_FallbackIsTheContentNode ==
    \A d \in DeviceTypes :
        (Parsed(d) /\ InversionNodeIndex(RawView(treeLoad.data[d])) = 0) =>
            LET c == treeLoad.data[d]
                raw == RawView(c)
                i == ContentNodeIndex(raw)
            IN c.root = SubSeq(c.raw, i, SubtreeEnd(raw, i))

(***************************************************************************)
(* The curve section of the settings panel: the mode buttons, the exponent *)
(* slider and preset buttons, the inputs of the curve points and the curve *)
(* preset buttons.  renderSettingsPanel has showCurveSection = false, so   *)
(* the panel renders none of them and no listener is attached; the         *)
(* handlers are modelled as they would run for the node of the panel.      *)
(***************************************************************************)
\* at most this many curve objects are allocated by the handlers
MaxCurveObjects == 1

\* the objects the handlers have allocated
AllocatedCurves == {id \in DOMAIN curveObjects : id[1] = "new"}

\* the object the next allocation gives
NewCurveObject == CurveObject("new", Cardinality(AllocatedCurves) + 1)

\* getUserSetting(node.path, 'curve', node.curve): the object of the stored curve, the
\* node's own curve object when none is stored, NoObject for null
CurveOfNode(node) ==
    LET r == LookupSetting(Settings, node.path, "curve")
    IN IF r.found THEN r.value.ref
       ELSE NodeCurveObject(currentDeviceType,
                            NodeIndex(controlsData[currentDeviceType], node))

\* n setUserSetting calls in a row on one path: the fields and values in calls
RECURSIVE StoreAfterSets(_, _, _)
StoreAfterSets(us, path, calls) ==
    IF calls = <<>> THEN us
    ELSE StoreAfterSets(StoreAfterSet(us, currentDeviceType, currentGamepadInstance,
                                      currentJoystickInstance, path,
                                      Head(calls)[1], Head(calls)[2]),
                        path, Tail(calls))

\* the calls of setUserSetting a handler makes for the node of the panel, sync
\* scheduling included; the handler leaves curves as the curve objects
SetUserSettings(calls, curves) ==
    /\ userSettings' = StoreAfterSets(userSettings, selectedNode.path, calls)
    /\ TotalRecords(userSettings') <= MaxRecords
    /\ curveObjects' = curves
    /\ hasUnsavedChanges' = TRUE
    /\ syncDebounceTimer' = DebouncedSyncCalls(syncDebounceTimer, timers, Len(calls)).handle
    /\ timers' = DebouncedSyncCalls(syncDebounceTimer, timers, Len(calls)).timers
    /\ burst' = BurstAfterCalls(burst, syncDebounceTimer, timers, Len(calls))
    /\ unsyncedEdits' = TRUE
    /\ syncedOptions' = NoSync
    /\ loadedOptions' = <<>>
    /\ UNCHANGED <<syncErrors, treeLoad, curveEval, currentDeviceType, currentGamepadInstance,
                   currentJoystickInstance, selectedNode>>

\* renderSettingsPanel shows settings for leaf nodes only; the controls of the curve
\* section are taken to be shown for every leaf
ShowCurveControls(node) ==
    /\ node # Null
    /\ IsLeafNode(controlsData[currentDeviceType], node)

\* the click listeners of the two mode buttons
CurveModeButton(curveMode) ==
    /\ ShowCurveControls(selectedNode)
    /\ SetUserSettings(<< <<"curveMode", curveMode>> >>, curveObjects)

\* the input listener of the exponent slider and the click listener of the exponent
\* preset buttons
ExponentInput(exponent) ==
    /\ ShowCurveControls(selectedNode)
    /\ SetUserSettings(<< <<"curveMode", "exponent">>, <<"exponent", exponent>> >>,
                       curveObjects)

\* Math.max(0, Math.min(1, value))
Clamp(value) == IF value < 0 THEN 0 ELSE IF value > 100 THEN 100 ELSE value

\* what the handlers store: curve mode curve and the curve object
StoreCurve(curve) == << <<"curveMode", "curve">>, <<"curve", [ref |-> curve]>> >>

\* `curve` in updateCurvePoint and addCurvePoint once a missing curve has been replaced
\* by a new { reset: false, points: [] }; got is what getUserSetting returned
EditedCurve(got) == IF got = NoObject THEN NewCurveObject ELSE got

\* the value of that object before the handler changes it
CurveBefore(got) ==
    IF got = NoObject THEN [reset |-> FALSE, points |-> <<>>] ELSE curveObjects[got]

\* the curve objects after the handler has changed the points of the edited curve in place
CurvesAfterEdit(got, points) ==
    (EditedCurve(got) :> [reset |-> CurveBefore(got).reset, points |-> points]) @@ curveObjects

\* curve.points[index][field] = Math.max(0, Math.min(1, value)) if the row exists
PointsAfterUpdate(points, index, field, value) ==
    [k \in 1..Len(points) |->
        IF k = index
        THEN [f \in {"in", "out"} |-> IF f = field THEN Clamp(value) ELSE points[k][f]]
        ELSE points[k]]

\* updateCurvePoint(node, event): index is the row (the first row is 1), field is in or out
UpdateCurvePoint(index, field, value) ==
    /\ ShowCurveControls(selectedNode)
    /\ \E got \in {CurveOfNode(selectedNode)} :
          /\ got = NoObject => Cardinality(AllocatedCurves) < MaxCurveObjects
          /\ SetUserSettings(StoreCurve(EditedCurve(got)),
                             CurvesAfterEdit(got, PointsAfterUpdate(CurveBefore(got).points,
                                                                    index, field, value)))

\* curve.points.splice(index, 1)
PointsAfterRemove(points, index) ==
    IF index \in 1..Len(points)
    THEN SubSeq(points, 1, index - 1) \o SubSeq(points, index + 1, Len(points))
    ELSE points

\* removeCurvePoint(node, index): nothing happens when there is no curve
RemoveCurvePoint(index) ==
    /\ ShowCurveControls(selectedNode)
    /\ \E got \in {CurveOfNode(selectedNode)} :
          /\ got # NoObject
          /\ SetUserSettings(StoreCurve(got),
                             CurvesAfterEdit(got, PointsAfterRemove(CurveBefore(got).points,
                                                                    index)))

\* The gaps addCurvePoint looks at, in the order it looks at them: from 0 to the least
\* input, between neighbours, from the greatest input to 1.
Gaps(inputs) ==
    [k \in 1..(Len(inputs) + 1) |->
        [start |-> IF k = 1 THEN 0 ELSE inputs[k - 1],
         gap |-> IF k = 1 THEN inputs[1]
                 ELSE IF k = Len(inputs) + 1 THEN 100 - inputs[Len(inputs)]
                 ELSE inputs[k] - inputs[k - 1]]]

\* the gap addCurvePoint splits: a later gap replaces the one found only when it is larger
LargestGap(inputs) ==
    LET gaps == Gaps(inputs)
    IN gaps[Min({k \in 1..Len(gaps) : \A j \in 1..Len(gaps) : gaps[j].gap <= gaps[k].gap})]

\* the gap addCurvePoint splits for the points of a curve: the whole range for no points
GapToSplit(points) ==
    LET sortedPoints == SortByIn(points)
        existingInputs == [k \in 1..Len(sortedPoints) |-> sortedPoints[k].in]
    IN IF points = <<>> THEN [start |-> 0, gap |-> 100] ELSE LargestGap(existingInputs)

\* curve.points after the push of the new point and the sort
PointsAfterAdd(points) ==
    LET newIn == GapToSplit(points).start + GapToSplit(points).gap \div 2
    IN SortByIn(Append(points, [in |-> newIn, out |-> newIn]))

\* addCurvePoint(node); the step is taken for a list shorter than MaxPoints whose
\* largest gap has its middle at a whole number of hundredths
AddCurvePoint ==
    /\ ShowCurveControls(selectedNode)
    /\ \E got \in {CurveOfNode(selectedNode)} :
          /\ got = NoObject => Cardinality(AllocatedCurves) < MaxCurveObjects
          /\ Len(CurveBefore(got).points) < MaxPoints
          /\ GapToSplit(CurveBefore(got).points).gap % 2 = 0
          /\ SetUserSettings(StoreCurve(EditedCurve(got)),
                             CurvesAfterEdit(got, PointsAfterAdd(CurveBefore(got).points)))

\* The presets of applyCurvePreset.  The preset aggressive has an output of 0.015, which
\* is no whole number of hundredths; it is copied and stored as the others are and is
\* not among the presets applied here.
CurvePresets ==
    [linear |-> [reset |-> FALSE, points |-> <<>>],
     smooth |-> [reset |-> FALSE,
                 points |-> <<[in |-> 20, out |-> 5], [in |-> 40, out |-> 15],
                              [in |-> 60, out |-> 35], [in |-> 80, out |-> 65]>>],
     precise |-> [reset |-> FALSE,
                  points |-> <<[in |-> 10, out |-> 2], [in |-> 30, out |-> 8],
                               [in |-> 50, out |-> 20], [in |-> 70, out |-> 45],
                               [in |-> 90, out |-> 80]>>]]

\* applyCurvePreset(node, presetName): the stored curve is a JSON copy of the preset; a
\* name without preset is logged and nothing is stored
ApplyCurvePreset(presetName) ==
    /\ ShowCurveControls(selectedNode)
    /\ presetName \in DOMAIN CurvePresets
    /\ Cardinality(AllocatedCurves) < MaxCurveObjects
    /\ SetUserSettings(StoreCurve(NewCurveObject),
                       (NewCurveObject :> CurvePresets[presetName]) @@ curveObjects)

(***************************************************************************)
(* SpecCurveEdit: the handlers of the curve section on the node a click    *)
(* selected.  The device tab is chosen before the first edit, so the edits *)
(* of a run all write one bucket.                                          *)
(***************************************************************************)
\* the inputs of the curve point rows edited: row, field and value typed
PointInputs == { <<1, "out", 150>>, <<2, "in", 25>> }
PresetNames == {"linear", "custom"}

NextCurveEdit ==
    \/ /\ ~hasUnsavedChanges
       /\ \E d \in DeviceTypes, i \in Instances : SwitchDeviceType(d, i)
    \/ \E p \in RenderedPaths : SelectTreeNode(p)
    \/ \E curveMode \in {"exponent", "curve"} : CurveModeButton(curveMode)
    \/ \E exponent \in PropagatedExponents : ExponentInput(exponent)
    \/ \E input \in PointInputs : UpdateCurvePoint(input[1], input[2], input[3])
    \/ \E index \in 1..MaxPoints : RemoveCurvePoint(index)
    \/ AddCurvePoint
    \/ \E presetName \in PresetNames : ApplyCurvePreset(presetName)

SpecCurveEdit == Init /\ [][NextCurveEdit]_vars

(***************************************************************************)
(* SpecStore: the handlers that write the store, the flag and the          *)
(* selection (tabs, tree clicks, the listeners of the settings panel, the  *)
(* two loads, the clear and the save mark), in any order and from any      *)
(* store; the callbacks of the timers the edits schedule do not run.       *)
(***************************************************************************)
NextStore ==
    \/ \E d \in DeviceTypes, i \in Instances : SwitchDeviceType(d, i)
    \/ \E p \in RenderedPaths : SelectTreeNode(p)
    \/ \E checked \in BOOLEAN : InvertToggle(checked)
    \/ OverrideInherited
    \/ ResetNodeSettings
    \/ \E deviceOptions \in DeviceOptionsInputs : LoadControlSettings(TRUE, deviceOptions)
    \/ \E devices \in FileInputs : LoadControlsFromFile(devices)
    \/ ClearControlSettings
    \/ MarkControlsSettingsSaved

SpecStore == Init /\ [][NextStore]_vars

(***************************************************************************)
(* C24: the loads and the clear replace the store.                         *)
(***************************************************************************)
\* the buckets a store holds for a device class
BucketsOfClass(us, d) ==
    CASE d = "joystick" -> {us.joystick[i] : i \in DOMAIN us.joystick}
      [] d = "gamepad" ->
            {us.gamepad.flat} \cup {us.gamepad.inst[i] : i \in DOMAIN us.gamepad.inst}
      [] OTHER -> {us.keyboard}

\* the [key, rec] entries a store holds for a device class
EntriesOfClass(us, d) ==
    UNION {{b[k] : k \in 1..Len(b)} : b \in BucketsOfClass(us, d)}

\* the entry is what an option of the loaded list for the class d gives
SuppliedByOptions(entry, d, deviceOptions) ==
    \E k \in 1..Len(deviceOptions) :
        /\ deviceOptions[k].device_type = d
        /\ \E o \in 1..Len(deviceOptions[k].control_options) :
              LET opt == deviceOptions[k].control_options[o]
              IN /\ Last(entry.key) = opt.name
                 /\ entry.rec = ParseOption(opt)

\* the entry is held, under its key and with its fields, by the loaded file for class d
SuppliedByFile(entry, d, devices) ==
    LET lists == IF d = "keyboard" THEN {devices.keyboard}
                 ELSE {devices[d][i] : i \in DOMAIN devices[d]}
    IN \E l \in lists : \E k \in 1..Len(l) :
          /\ l[k].name = entry.key
          /\ \A f \in DOMAIN entry.rec :
                f \in DOMAIN l[k].settings /\ entry.rec[f] = l[k].settings[f]

\* C24: after loadControlSettings of an array, after loadControlsFromFile and after
\* clearControlSettings the store holds no record but those the loaded data supplies
\* (none after a clear), whatever it held before.
C24_LoadsReplaceTheStore ==
    [][/\ (loadedOptions' # <<>> /\ LoadControlSettings(TRUE, loadedOptions')) =>
             \A d \in DeviceTypes : \A e \in EntriesOfClass(userSettings', d) :
                 SuppliedByOptions(e, d, loadedOptions')
       /\ \A devices \in FileInputs :
             (loadedOptions' = <<>> /\ ~hasUnsavedChanges' /\ LoadControlsFromFile(devices)) =>
                 \A d \in DeviceTypes : \A e \in EntriesOfClass(userSettings', d) :
                     SuppliedByFile(e, d, devices)
       /\ ClearControlSettings => TotalRecords(userSettings') = 0]_vars

\* an edit left a record with an invert field and the unsaved flag; a later load of one
\* option without invert left its record alone in the store
C24_Witness ==
    /\ hasUnsavedChanges
    /\ loadedOptions # <<>>
    /\ Len(loadedOptions[1].control_options) = 1
    /\ TotalRecords(userSettings) = 1
    /\ \A d \in DeviceTypes : \A e \in EntriesOfClass(userSettings, d) :
          "invert" \notin DOMAIN e.rec

(***************************************************************************)
(* SpecSyncFail: SpecSync with timer callbacks whose backend calls reject. *)
(***************************************************************************)
SyncStages == {"invoke", "cache"}

NextSyncFail ==
    \/ NextSync
    \/ \E id \in timers, stage \in SyncStages : SyncTimerFails(id, stage)

SpecSyncFail == Init /\ [][NextSyncFail]_vars

\* C25: a timer callback whose backend call rejects leaves the store, the selection and
\* the unsaved flag as they were, and once an error has been logged an edit still sets a
\* pending timer that syncDebounceTimer names, and a timer that runs still sends the store.
C25_SyncErrorIsCaught ==
    [][/\ \A id \in timers, stage \in SyncStages :
             SyncTimerFails(id, stage) =>
                 /\ userSettings' = userSettings
                 /\ selectedNode' = selectedNode
                 /\ hasUnsavedChanges' = hasUnsavedChanges
       /\ \A checked \in BOOLEAN :
             (syncErrors # <<>> /\ InvertToggle(checked)) =>
                 /\ syncDebounceTimer' \in timers'
                 /\ Cardinality(timers') = 1
       /\ \A id \in timers :
             (syncErrors # <<>> /\ SyncTimerFires(id) /\ SyncPayload(userSettings) # <<>>) =>
                 /\ syncedOptions'.sent
                 /\ syncedOptions'.controlOptions = SyncPayload(userSettings')]_vars

\* update_control_options rejected once, and the timer of a later edit has sent the store
C25_Witness ==
    /\ syncErrors = <<"invoke">>
    /\ syncedOptions.sent
    /\ syncedOptions.controlOptions = SyncPayload(userSettings)
    /\ timers = {}

(***************************************************************************)
(* Properties of the unsaved flag, of the writes and of the selection.     *)
(***************************************************************************)
\* a step that ends the unsaved state: the save mark, a file load or a clear
SavingStep ==
    \/ MarkControlsSettingsSaved
    \/ \E devices \in FileInputs : LoadControlsFromFile(devices)
    \/ ClearControlSettings

\* a step of the settings panel that changes the store
StoreChangingStep ==
    /\ userSettings' # userSettings
    /\ \/ \E checked \in BOOLEAN : InvertToggle(checked)
       \/ OverrideInherited
       \/ ResetNodeSettings

\* C27: a step that changes the store by setUserSetting or resetNodeSettings leaves the
\* flag true, and the flag stays true until the save mark, a file load or a clear; a
\* reset of one node does not clear it.
C27_UnsavedUntilSaved ==
    [][/\ StoreChangingStep => hasUnsavedChanges'
       /\ (hasUnsavedChanges /\ ~SavingStep) => hasUnsavedChanges']_vars

\* field f of the record a bucket holds under a key, if there is one
FieldOf(bucket, key, f) ==
    IF HasKey(bucket, key) /\ f \in DOMAIN RecordAt(bucket, key)
    THEN [found |-> TRUE, value |-> RecordAt(bucket, key)[f]]
    ELSE [found |-> FALSE]

\* the bucket of a device class and instance in a store; a bucket the store does not
\* hold has no record
BucketIn(us, t) == CurrentSettings(us, t[1], t[2], t[2])

\* the paths and names some record of the model is stored under
StoredKeys(us) ==
    UNION {KeysOf(BucketIn(us, t)) : t \in Buckets} \cup KeysOf(us.gamepad.flat)

\* what setUserSetting(path, settingName, value) may change between two stores: field
\* settingName of the record under path in the bucket of the current class and instance
OnlyFieldWritten(before, after, path, settingName, value) ==
    LET current == <<currentDeviceType,
                     IF currentDeviceType = "joystick" THEN currentJoystickInstance
                     ELSE IF currentDeviceType = "gamepad" THEN currentGamepadInstance
                     ELSE 1>>
    IN /\ FieldOf(BucketIn(after, current), path, settingName) =
              [found |-> TRUE, value |-> value]
       /\ after.gamepad.flat = before.gamepad.flat
       /\ \A t \in Buckets : \A key \in StoredKeys(before) \cup StoredKeys(after) :
             \A f \in SettingNames :
                (t # current \/ key # path \/ f # settingName) =>
                    FieldOf(BucketIn(after, t), key, f) = FieldOf(BucketIn(before, t), key, f)
       /\ \A t \in Buckets : \A key \in (StoredKeys(before) \cup StoredKeys(after)) \ {path} :
             HasKey(BucketIn(after, t), key) = HasKey(BucketIn(before, t), key)

\* C28: a call of setUserSetting(path, settingName, value), from the invert toggle or
\* from the override button, changes field settingName of the record under path in the
\* bucket of the current class and instance and nothing else of the store, whatever
\* tab switches, loads and edits came before.
C28_SetWritesOneField ==
    [][/\ \A checked \in BOOLEAN :
             InvertToggle(checked) =>
                 OnlyFieldWritten(userSettings, userSettings', selectedNode.path,
                                  "invert", checked)
       /\ OverrideInherited =>
             OnlyFieldWritten(userSettings, userSettings', selectedNode.path, "invert",
                              getUserSettingWithInheritance(Settings, selectedNode.path,
                                                            "invert", Null).value)]_vars

\* an edit wrote invert into a record that holds an exponent, beside a record of another
\* bucket
C28_Witness ==
    /\ hasUnsavedChanges
    /\ loadedOptions = <<>>
    /\ selectedNode # Null
    /\ FieldOf(Settings, selectedNode.path, "invert") = [found |-> TRUE, value |-> TRUE]
    /\ FieldOf(Settings, selectedNode.path, "exponent").found
    /\ TotalRecords(userSettings) >= 2

\* the keys of a store that lie under a sensitivity_curves path
CurvesKeys(us) ==
    {key \in StoredKeys(us) : \E i \in 1..Len(key) : key[i] = "sensitivity_curves"}

\* the selection is null or a node of the tree of the current class that is not disabled
SelectionIsEnabledNode ==
    \/ selectedNode = Null
    \/ /\ \E k \in 1..Len(controlsData[currentDeviceType]) :
             controlsData[currentDeviceType][k] = selectedNode
       /\ ~selectedNode.disabled

\* a step of a listener of the settings panel
PanelStep ==
    \/ \E checked \in BOOLEAN : InvertToggle(checked)
    \/ OverrideInherited
    \/ ResetNodeSettings

\* C29: the selection is always null or an enabled node of the tree of the current
\* class; a click on a disabled node leaves the selection as it was; a tab switch sets it
\* to null; and no listener of the settings panel writes a record under a
\* sensitivity_curves path.
C29_SelectionNeverDisabled ==
    /\ SelectionIsEnabledNode
    /\ [][/\ SelectionIsEnabledNode'
          /\ \A p \in RenderedPaths :
                (SelectTreeNode(p)
                   /\ FindNodeByPath(controlsData[currentDeviceType], p).disabled) =>
                       selectedNode' = selectedNode
          /\ (\E d \in DeviceTypes, i \in Instances : SwitchDeviceType(d, i)) =>
                selectedNode' = Null
          /\ PanelStep =>
                /\ \A i \in 1..Len(selectedNode.path) :
                      selectedNode.path[i] # "sensitivity_curves"
                /\ CurvesKeys(userSettings') \subseteq CurvesKeys(userSettings)]_vars

\* on a gamepad or joystick tab, whose tree holds the disabled curves section, a node is
\* selected and an edit has stored a record for it
C29_Witness ==
    /\ currentDeviceType \in {"gamepad", "joystick"}
    /\ \E k \in 1..Len(controlsData[currentDeviceType]) :
          controlsData[currentDeviceType][k].disabled
    /\ selectedNode # Null
    /\ HasKey(Settings, selectedNode.path)
    /\ hasUnsavedChanges

(***************************************************************************)
(* The save file read back.                                                *)
(***************************************************************************)
\* a JSON object getControlsForSaving wrote, as the entries convertLoadedSettings gets
SavedEntries(saved) ==
    [k \in 1..Len(saved) |-> [name |-> saved[k].key, settings |-> saved[k].rec]]

\* the devices of the file: what getControlsForSaving returned for the store; the
\* path-keyed entries of userSettings.gamepad are loaded beside the instance buckets
SavedDevices(us) ==
    LET saved == getControlsForSaving(us)
    IN [keyboard |-> SavedEntries(saved.keyboard),
        gamepad |-> [i \in DOMAIN saved.gamepad.inst |-> SavedEntries(saved.gamepad.inst[i])],
        joystick |-> [i \in DOMAIN saved.joystick |-> SavedEntries(saved.joystick[i])]]

\* the store after the file saved from a store is loaded
Reloaded(us) == StoreAfterLoadControlsFromFile(SavedDevices(us))

\* the invert of the record under the key is read back from the reloaded store
InvertReadBack(t, key) ==
    LET r == LookupSetting(BucketIn(Reloaded(userSettings), t), key, "invert")
    IN r.found /\ r.value = RecordAt(BucketOf(t), key).invert

\* C30: for every bucket and every path whose record holds invert, the store saved with
\* getControlsForSaving and loaded with loadControlsFromFile gives that invert for
\* getUserSetting(path, "invert") with the bucket's class and instance current, also
\* when two paths of the bucket end in the same segment.
C30_SavedInvertIsReadBack ==
    \A t \in Buckets : \A key \in KeysOf(BucketOf(t)) :
        "invert" \in DOMAIN RecordAt(BucketOf(t), key) => InvertReadBack(t, key)

\* the same for the paths whose final segment no other path of the bucket has
InvertReadBackWhenSegmentsDiffer ==
    \A t \in Buckets : \A key \in KeysOf(BucketOf(t)) :
        (/\ "invert" \in DOMAIN RecordAt(BucketOf(t), key)
         /\ \A other \in KeysOf(BucketOf(t)) \ {key} : Last(other) # Last(key))
            => InvertReadBack(t, key)

(***************************************************************************)
(* The curve section: what a mode switch and an edit leave alone.          *)
(***************************************************************************)
\* between two stores every field outside names is the same for every record
FieldsKept(before, after, names) ==
    \A t \in Buckets : \A key \in StoredKeys(before) \cup StoredKeys(after) :
        \A f \in SettingNames \ names :
            FieldOf(BucketIn(after, t), key, f) = FieldOf(BucketIn(before, t), key, f)

\* the handlers that set curve mode curve: the curve button and the curve edits
CurveModeStep ==
    \/ CurveModeButton("curve")
    \/ \E input \in PointInputs : UpdateCurvePoint(input[1], input[2], input[3])
    \/ \E index \in 1..MaxPoints : RemoveCurvePoint(index)
    \/ AddCurvePoint
    \/ \E presetName \in PresetNames : ApplyCurvePreset(presetName)

\* the handlers that set curve mode exponent: the exponent button and the exponent edits
ExponentModeStep ==
    \/ CurveModeButton("exponent")
    \/ \E exponent \in PropagatedExponents : ExponentInput(exponent)

\* C21: a mode switch or an edit changes only the fields it names.  A step that sets
\* curve mode curve (the curve button, a point edit, a point added or removed, a preset)
\* leaves the stored exponent of every record as it was; a step that sets curve mode
\* exponent (the exponent button, an exponent edit) leaves the stored curve of every
\* record, object and points, as it was.
C21_ModeSwitchKeepsData ==
    [][/\ CurveModeStep => FieldsKept(userSettings, userSettings', {"curveMode", "curve"})
       /\ ExponentModeStep =>
             /\ FieldsKept(userSettings, userSettings', {"curveMode", "exponent"})
             /\ curveObjects' = curveObjects]_vars

\* the record of the selected node holds an exponent and a curve with points, and the
\* mode was switched after both were stored
C21_Witness ==
    /\ selectedNode # Null
    /\ HasKey(Settings, selectedNode.path)
    /\ {"curveMode", "exponent", "curve"} \subseteq DOMAIN RecordAt(Settings, selectedNode.path)
    /\ RecordAt(Settings, selectedNode.path).exponent = 200
    /\ RecordAt(Settings, selectedNode.path).curveMode = "exponent"
    /\ Len(curveObjects[RecordAt(Settings, selectedNode.path).curve.ref].points) > 0

\* the curve objects the records of a store hold, each with the bucket and key of its
\* record
StoredCurveRefs(us) ==
    {<<t, key, FieldOf(BucketIn(us, t), key, "curve").value.ref>> :
        <<t, key>> \in {tk \in Buckets \X StoredKeys(us) :
                          FieldOf(BucketIn(us, tk[1]), tk[2], "curve").found}}

\* C26: the tree is as it was built whatever curve edits were made: every curve object
\* of a tree node has the points parseCurve gave it, no record of the store holds the
\* curve object of a tree node, and no two records hold the same curve object.
C26_TreeCurvesImmutable ==
    /\ \A id \in DOMAIN NodeCurves : curveObjects[id] = NodeCurves[id]
    /\ \A stored \in StoredCurveRefs(userSettings) : stored[3] \notin DOMAIN NodeCurves
    /\ \A a, b \in StoredCurveRefs(userSettings) : a[3] = b[3] => a = b

\* the same of the one handler that stores a copy: a step of applyCurvePreset changes no
\* curve object there was and stores an object no tree node and no other record holds
PresetStoresACopy ==
    [][(\E presetName \in PresetNames : ApplyCurvePreset(presetName)) =>
          /\ \A id \in DOMAIN curveObjects : curveObjects'[id] = curveObjects[id]
          /\ \E stored \in StoredCurveRefs(userSettings') :
                /\ stored[2] = selectedNode.path
                /\ stored[3] \notin DOMAIN curveObjects
                /\ \A other \in StoredCurveRefs(userSettings') :
                      other[3] = stored[3] => other = stored]_vars

====
